---------------------------- MODULE Spec2Model ----------------------------
(***************************************************************************)
(* Esquisse: the replicated drawing / transform / settings stores, the     *)
(* BroadcastChannel that links the windows, and the local undo/redo        *)
(* history.                                                                *)
(*                                                                         *)
(* Every window (browser context) owns one instance of each store and one  *)
(* history.  A window runs one event to completion at a time, so each      *)
(* store method and each channel.onmessage handler is one atomic action.   *)
(* Numbers of the transform store are exact rationals <<num, den>>: what   *)
(* the stores replicate does not depend on how the numbers are rounded.    *)
(* Where it does matter, in the coordinate conversions and the zoom anchor,*)
(* the same formulas are computed as the program computes them, each       *)
(* operation rounded to the nearest floating-point number (ties to even),  *)
(* with a significand of Precision bits in place of the 53 of a double.    *)
(***************************************************************************)
EXTENDS Integers, Sequences, FiniteSets, TLC

\* ------------------------------------------------------------- bounds
NWin == 2               \* windows that may exist (1 is the control window)
MaxOps == 1             \* store method calls of a behaviour of Spec, SpecFair
MaxWrites == 2          \* store method calls of a behaviour of SpecOneWriter
MaxHistOps == 4         \* store method calls of a behaviour of SpecHistory
MaxStrokes == 2         \* strokes created in one behaviour (fresh ids)
MaxPts == 2             \* points of a stroke in progress
MaxCommits == 3         \* strokes committed in a behaviour of SpecOrder
MaxShared == 2          \* store method calls of a behaviour of SpecShared
MaxForeign == 1         \* payloads a page of another version posts per store
MaxZooms == 2           \* transform store calls of a behaviour of SpecTransform
Precision == 11         \* bits of the significand of a floating-point number
MaxGestures == 2        \* zooms of a behaviour of SpecNumeric
MaxStackOps == 6        \* drawing store calls of a behaviour of SpecStack
MaxCanvasOps == 4       \* store calls of a behaviour of SpecCanvas
MaxSetOps == 2          \* store calls of a behaviour of SpecSettings
MaxChecks == 3          \* checkForUpdates calls of a behaviour of SpecVersion
MaxRecords == 101       \* strokes committed in a behaviour of SpecBound

\* --------------------------------------------------- program constants
MAX_HISTORY_SIZE == 100

Win == 1..NWin
Store == {"drawing", "transform", "settings"}

\* null of the source: absent stroke, absent file, "no action" result
Null == [null |-> TRUE]

\* ----------------------------------------------------------- rationals
RECURSIVE GCD(_, _)
GCD(a, b) == IF b = 0 THEN a ELSE GCD(b, a % b)

Abs(a) == IF a < 0 THEN -a ELSE a

\* the rational n/d in lowest terms with a positive denominator
Q(n, d) ==
    LET g == GCD(Abs(n), Abs(d))
        s == IF d < 0 THEN -1 ELSE 1
    IN  <<(s * n) \div g, (s * d) \div g>>

QInt(i) == <<i, 1>>
QAdd(a, b) == Q(a[1] * b[2] + b[1] * a[2], a[2] * b[2])
QSub(a, b) == Q(a[1] * b[2] - b[1] * a[2], a[2] * b[2])
QMul(a, b) == Q(a[1] * b[1], a[2] * b[2])
QDiv(a, b) == Q(a[1] * b[2], a[2] * b[1])
QLe(a, b) == a[1] * b[2] <= b[1] * a[2]
QMax(a, b) == IF QLe(a, b) THEN b ELSE a
QMin(a, b) == IF QLe(a, b) THEN a ELSE b

QAbs(a) == <<Abs(a[1]), a[2]>>

\* ------------------------------------------------- floating-point numbers
RECURSIVE Pow2(_)
Pow2(k) == IF k = 0 THEN 1 ELSE 2 * Pow2(k - 1)

\* a / d scaled by a power of two into [2^(Precision-1), 2^Precision):
\* <<a', d', e>> with a / d = (a' / d') * 2^e
RECURSIVE Normal(_, _, _)
Normal(a, d, e) ==
    IF a \div d >= Pow2(Precision) THEN Normal(a, 2 * d, e + 1)
    ELSE IF a \div d < Pow2(Precision - 1)
         THEN IF d % 2 = 0 THEN Normal(a, d \div 2, e - 1)
              ELSE Normal(2 * a, d, e - 1)
         ELSE <<a, d, e>>

\* a / d rounded to the nearest integer, ties to the even one
NearestEven(a, d) ==
    LET f == a \div d
        r == a % d
    IN  IF r > d - r \/ (r = d - r /\ f % 2 = 1) THEN f + 1 ELSE f

\* the floating-point number nearest to the rational q: the result of one
\* arithmetic operation whose exact value is q
Round(q) ==
    IF q[1] = 0 THEN q
    ELSE LET n == Normal(Abs(q[1]), q[2], 0)
             m == NearestEven(n[1], n[2])
             s == IF q[1] < 0 THEN -1 ELSE 1
         IN  IF n[3] >= 0 THEN Q(s * m * Pow2(n[3]), 1)
             ELSE Q(s * m, Pow2(-n[3]))

\* the operators +, -, *, / of the source on numbers
FAdd(a, b) == Round(QAdd(a, b))
FSub(a, b) == Round(QSub(a, b))
FMul(a, b) == Round(QMul(a, b))
FDiv(a, b) == Round(QDiv(a, b))

\* ------------------------------------------------------ initial values
MIN_SCALE == Q(1, 100)
MAX_SCALE == QInt(100)

INITIAL_TRANSFORM == [x |-> QInt(0), y |-> QInt(0), scale |-> QInt(1)]

\* pressureCurve and pressureMultiplier are kept in tenths (0.5, 4.0)
INITIAL_SETTINGS ==
    [color |-> "#000000", width |-> 2, viewportCulling |-> TRUE,
     pressureCurve |-> 5, tiltEnabled |-> TRUE, pressureMultiplier |-> 40]

initialState == [strokes |-> <<>>, currentStroke |-> Null, currentFile |-> Null]

\* the version store of a build whose CURRENT_VERSION is currentVersion
\* (versions are strings; "null" and "undefined" stand for the two values)
initialVersion(currentVersion) ==
    [currentVersion |-> currentVersion, latestVersion |-> "null",
     hasUpdate |-> FALSE, checking |-> FALSE]

\* let channel = null; if (browser) channel = new BroadcastChannel(NAME):
\* the handle a store holds once the page that owns it has constructed it
constructed(browser) == IF browser THEN "open" ELSE "null"

\* the Canvas component: isDrawing and touchState.isMultiTouch
initialCanvas == [isDrawing |-> FALSE, isMultiTouch |-> FALSE]

initialHistory == [past |-> <<>>, future |-> <<>>, maxSize |-> MAX_HISTORY_SIZE]

\* ------------------------------------------------------------- inputs
\* a stroke: its unique id and the number of points it holds
Stroke(id, pts) == [id |-> id, points |-> pts]

\* strokes found in files on disk (ids apart from the ids minted in a run)
FileStrokeA == Stroke(-1, 1)
FileStrokeB == Stroke(-2, 2)
\* an EsquisseFile, reduced to the strokes it stores
File(strokes) == [strokes |-> strokes]
Files == {File(<<>>), File(<<FileStrokeA, FileStrokeB>>)}

ZoomDeltas == {-1000, 1000}
Anchors == {<<0, 0>>, <<400, 300>>}
PanDeltas == {<<10, -5>>}
Colors == {"#ff0000"}
Widths == {5}

VARIABLES
    live,         \* live[w]: window w exists and its stores listen
    canvas,       \* canvas[w]: the flags of w's Canvas component
    channel,      \* channel[s][w]: the BroadcastChannel handle of the store
    version,      \* version[w]: value of w's version store
    checks,       \* checks[w]: where each checkForUpdates call of w that
                  \* has not returned is waiting, oldest first
    drawing,      \* drawing[w]: value of w's drawing store
    transform,    \* transform[w]: value of w's transform store
    settings,     \* settings[w]: value of w's settings store
    history,      \* history[w]: value of w's history store
    isReceiving,  \* isReceiving[s][w]: the store's re-broadcast guard
    chan,         \* chan[s][a][b]: messages a posted on channel s, not yet
                  \* handled by b, oldest first
    nextId,       \* next fresh stroke id (crypto.randomUUID never repeats)
    idsLeft,      \* strokes the behaviour may still create
    left,         \* store method calls the behaviour may still make
    mutations,    \* mutations[s][w]: broadcastUpdate/broadcastSet calls
    posted,       \* posted[s][w]: channel.postMessage calls
    applied,      \* applied[s][w]: messages handled by w's onmessage
    heard,        \* heard[s][w]: messages posted by others while w listened
    last,         \* the last event: operation, window, store, result, post
    pre,          \* drawing and history of last.win before its last
                  \* drawing-store method
    undoTo        \* undoTo[w]: the run of finishStroke / removeStroke /
                  \* clear calls w made last, with the document before each
                  \* call, and the number of undo calls that followed it

vars == <<live, canvas, channel, version, checks, drawing, transform, settings,
          history, isReceiving, chan,
          nextId, idsLeft, left, mutations, posted, applied, heard, last, pre,
          undoTo>>


Value(s, w) ==
    CASE s = "drawing" -> drawing[w]
      [] s = "transform" -> transform[w]
      [] s = "settings" -> settings[w]

InitialValue(s) ==
    CASE s = "drawing" -> initialState
      [] s = "transform" -> INITIAL_TRANSFORM
      [] s = "settings" -> INITIAL_SETTINGS

Zero == [s \in Store |-> [w \in Win |-> 0]]

\* the run of finishStroke / removeStroke / clear calls and of the undo
\* calls that follow it: the document before each call, whether the call
\* recorded a history entry, and how many undo calls have followed
NoRun == [run |-> <<>>, undone |-> 0]
RunCall(r, entry) == IF r.undone > 0 THEN [run |-> <<entry>>, undone |-> 0]
                     ELSE [run |-> Append(r.run, entry), undone |-> 0]
RunUndo(r) == IF r.undone < Len(r.run) THEN [r EXCEPT !.undone = @ + 1]
              ELSE NoRun

Init ==
    /\ live = [w \in Win |-> w = 1]
    /\ canvas = [w \in Win |-> initialCanvas]
    /\ channel = [s \in Store |-> [w \in Win |-> constructed(live[w])]]
    /\ drawing = [w \in Win |-> initialState]
    /\ transform = [w \in Win |-> INITIAL_TRANSFORM]
    /\ settings = [w \in Win |-> INITIAL_SETTINGS]
    /\ history = [w \in Win |-> initialHistory]
    /\ isReceiving = [s \in Store |-> [w \in Win |-> FALSE]]
    /\ chan = [s \in Store |-> [a \in Win |-> [b \in Win |-> <<>>]]]
    /\ nextId = 1
    /\ idsLeft = MaxStrokes
    /\ left = MaxOps
    /\ mutations = Zero
    /\ posted = Zero
    /\ applied = Zero
    /\ heard = Zero
    /\ last = [op |-> "init", win |-> 1, store |-> "drawing", ret |-> Null,
               msg |-> Null]
    /\ pre = [drawing |-> initialState, history |-> initialHistory]
    /\ undoTo = [w \in Win |-> NoRun]
    /\ version = [w \in Win |-> initialVersion("dev")]
    /\ checks = [w \in Win |-> <<>>]

\* -------------------------------------------------- the broadcast channel
\* a channel that keeps what was posted for the windows still to come
postMessage_persistent(s, w, v) ==
    /\ chan' = [chan EXCEPT ![s][w] =
                   [b \in Win |-> IF b # w THEN Append(@[b], v) ELSE @[b]]]
    /\ posted' = [posted EXCEPT ![s][w] = @ + 1]
    /\ heard' = [heard EXCEPT ![s] =
                   [b \in Win |-> IF b # w /\ live[b] THEN @[b] + 1 ELSE @[b]]]

\* a channel that hands the newest message over first
postMessage_front(s, w, v) ==
    /\ chan' = [chan EXCEPT ![s][w] =
                   [b \in Win |-> IF b # w /\ live[b] THEN <<v>> \o @[b]
                                  ELSE @[b]]]
    /\ posted' = [posted EXCEPT ![s][w] = @ + 1]
    /\ heard' = [heard EXCEPT ![s] =
                   [b \in Win |-> IF b # w /\ live[b] THEN @[b] + 1 ELSE @[b]]]

\* channel.postMessage(v): one copy for every other window that is listening
\* on the same channel name now; nothing is kept for later listeners
postMessage(s, w, v) ==
    /\ chan' = [chan EXCEPT ![s][w] =
                   [b \in Win |-> IF b # w /\ live[b] THEN Append(@[b], v)
                                  ELSE @[b]]]
    /\ posted' = [posted EXCEPT ![s][w] = @ + 1]
    /\ heard' = [heard EXCEPT ![s] =
                   [b \in Win |-> IF b # w /\ live[b] THEN @[b] + 1 ELSE @[b]]]

\* the value a broadcast helper hands to postMessage, Null when it posts none
Msg(s, w, v) == IF isReceiving[s][w] THEN Null ELSE v

\* a helper that posts the state it was given instead of the one it made
broadcastUpdate_stale(s, w, newState) ==
    /\ mutations' = [mutations EXCEPT ![s][w] = @ + 1]
    /\ IF ~isReceiving[s][w]
       THEN postMessage(s, w, Value(s, w))
       ELSE UNCHANGED <<chan, posted, heard>>

\* broadcastUpdate(fn): update(state => { newState = fn(state);
\*   if (channel && !isReceiving) channel.postMessage(newState); ... })
\* newState is fn(state); the caller stores it
broadcastUpdate(s, w, newState) ==
    /\ mutations' = [mutations EXCEPT ![s][w] = @ + 1]
    /\ IF ~isReceiving[s][w]
       THEN postMessage(s, w, newState)
       ELSE UNCHANGED <<chan, posted, heard>>

\* broadcastSet(value): set(value); if (channel && !isReceiving) post(value)
broadcastSet(s, w, value) ==
    /\ mutations' = [mutations EXCEPT ![s][w] = @ + 1]
    /\ IF ~isReceiving[s][w]
       THEN postMessage(s, w, value)
       ELSE UNCHANGED <<chan, posted, heard>>

\* a method that reaches neither helper (a plain update, or an early return)
noBroadcast == UNCHANGED <<chan, posted, heard, mutations>>

\* ------------------------------------------------------------ history
\* a record that keeps the redo stack
record_keepFuture(h, action) ==
    LET newPast == Append(h.past, action)
    IN  [h EXCEPT !.past = IF Len(newPast) > h.maxSize THEN Tail(newPast)
                           ELSE newPast]

\* a record that never drops the oldest entry
record_noEvict(h, action) ==
    [h EXCEPT !.past = Append(h.past, action), !.future = <<>>]

\* history.record(action): push, drop the oldest over maxSize, clear future
record(h, action) ==
    LET newPast == Append(h.past, action)
    IN  [h EXCEPT !.past = IF Len(newPast) > h.maxSize THEN Tail(newPast)
                           ELSE newPast,
                  !.future = <<>>]

\* array.slice(0, -1)
DropLast(seq) == IF seq = <<>> THEN <<>> ELSE SubSeq(seq, 1, Len(seq) - 1)

\* an undo that refuses to pop the last entry left
history_undo_keepOne(h) ==
    IF Len(h.past) <= 1
    THEN [ret |-> Null, h |-> h]
    ELSE LET action == h.past[Len(h.past)]
         IN  [ret |-> action,
              h |-> [h EXCEPT !.past = DropLast(h.past),
                              !.future = Append(h.future, action)]]

\* history.undo(): the action returned (Null on an empty past) and the state
history_undo(h) ==
    IF Len(h.past) = 0
    THEN [ret |-> Null, h |-> h]
    ELSE LET action == h.past[Len(h.past)]
         IN  [ret |-> action,
              h |-> [h EXCEPT !.past = DropLast(h.past),
                              !.future = Append(h.future, action)]]

\* a redo that returns the last undone action and leaves it on future
history_redo_keepFuture(h) ==
    IF Len(h.future) = 0
    THEN [ret |-> Null, h |-> h]
    ELSE LET action == h.future[Len(h.future)]
         IN  [ret |-> action, h |-> [h EXCEPT !.past = Append(h.past, action)]]

\* history.redo()
history_redo(h) ==
    IF Len(h.future) = 0
    THEN [ret |-> Null, h |-> h]
    ELSE LET action == h.future[Len(h.future)]
         IN  [ret |-> action,
              h |-> [h EXCEPT !.past = Append(h.past, action),
                              !.future = DropLast(h.future)]]

canUndo(h) == Len(h.past) > 0
canRedo(h) == Len(h.future) > 0

\* -------------------------------------------------------- array.splice
\* the start position splice uses for a 0-based index on an array of n
SpliceStart(i, n) == IF i < 0 THEN (IF n + i < 0 THEN 0 ELSE n + i)
                     ELSE IF i > n THEN n ELSE i

\* arr.splice(i, 0, x)
SpliceInsert(arr, i, x) ==
    LET k == SpliceStart(i, Len(arr))
    IN  SubSeq(arr, 1, k) \o <<x>> \o SubSeq(arr, k + 1, Len(arr))

\* arr.splice(i, 1)
SpliceRemove(arr, i) ==
    LET k == SpliceStart(i, Len(arr))
    IN  SubSeq(arr, 1, k) \o SubSeq(arr, k + 2, Len(arr))


\* ------------------------------------------------------ drawing store
\* a window can run a store method: it exists and the run has calls left
CanCall(w) == live[w] /\ left > 0

\* the Document of the specification: the strokes and the stroke in progress
Document(state) == [strokes |-> state.strokes, inProgress |-> state.currentStroke]

\* the call is a finishStroke, removeStroke or clear call (removeLastStroke
\* calls removeStroke when there is a stroke)
InUndoableRun(op, state) ==
    \/ op \in {"finishStroke", "removeStroke", "clear"}
    \/ op = "removeLastStroke" /\ Len(state.strokes) > 0

\* what every drawing-store method leaves behind besides the channel, when
\* the caller leaves the Canvas flags of the window as newCanvas
DrawingDoneIn(w, op, newState, newHistory, ret, msg, minted, newCanvas) ==
    /\ drawing' = [drawing EXCEPT ![w] = newState]
    /\ history' = [history EXCEPT ![w] = newHistory]
    /\ nextId' = IF minted THEN nextId + 1 ELSE nextId
    /\ idsLeft' = IF minted THEN idsLeft - 1 ELSE idsLeft
    /\ left' = left - 1
    /\ last' = [op |-> op, win |-> w, store |-> "drawing", ret |-> ret,
                msg |-> msg]
    /\ pre' = [drawing |-> drawing[w], history |-> history[w]]
    /\ undoTo' = [undoTo EXCEPT ![w] =
                     IF InUndoableRun(op, drawing[w])
                     THEN RunCall(@, [doc |-> Document(drawing[w]),
                                      recorded |-> newHistory # history[w]])
                     ELSE IF op = "undo" THEN RunUndo(@) ELSE NoRun]
    /\ canvas' = [canvas EXCEPT ![w] = newCanvas]
    /\ UNCHANGED <<live, channel, version, checks, transform, settings,
                   isReceiving, applied>>

\* a method called from outside the Canvas handlers
DrawingDone(w, op, newState, newHistory, ret, msg, minted) ==
    DrawingDoneIn(w, op, newState, newHistory, ret, msg, minted, canvas[w])

\* startStroke, called by a handler that leaves the Canvas flags as c
startStrokeIn(w, pts, c) ==
    /\ CanCall(w)
    /\ idsLeft > 0
    /\ LET newState == [drawing[w] EXCEPT !.currentStroke = Stroke(nextId, pts)]
       IN  /\ broadcastUpdate("drawing", w, newState)
           /\ DrawingDoneIn(w, "startStroke", newState, history[w], Null,
                            Msg("drawing", w, newState), TRUE, c)

startStroke(w, pts) == startStrokeIn(w, pts, canvas[w])

\* an update that starts a stroke of the points when none is in progress
updateCurrentStroke_starting(w, pts) ==
    /\ CanCall(w)
    /\ LET state == drawing[w]
           newState == IF state.currentStroke = Null
                       THEN [state EXCEPT !.currentStroke = Stroke(0, pts)]
                       ELSE [state EXCEPT !.currentStroke.points = pts]
       IN  /\ broadcastUpdate("drawing", w, newState)
           /\ DrawingDone(w, "updateCurrentStroke", newState, history[w], Null,
                          Msg("drawing", w, newState), FALSE)

updateCurrentStrokeIn(w, pts, c) ==
    /\ CanCall(w)
    /\ LET state == drawing[w]
           newState == IF state.currentStroke = Null THEN state
                       ELSE [state EXCEPT !.currentStroke.points = pts]
       IN  /\ broadcastUpdate("drawing", w, newState)
           /\ DrawingDoneIn(w, "updateCurrentStroke", newState, history[w],
                            Null, Msg("drawing", w, newState), FALSE, c)

updateCurrentStroke(w, pts) == updateCurrentStrokeIn(w, pts, canvas[w])

\* a callback that commits the stroke in front of the others
finishStrokeFn_front(state, h) ==
    IF state.currentStroke = Null
    THEN [state |-> state, h |-> h]
    ELSE [state |-> [state EXCEPT
                        !.strokes = <<state.currentStroke>> \o state.strokes,
                        !.currentStroke = Null],
          h |-> record(h, [type |-> "stroke_add",
                           stroke |-> state.currentStroke])]

\* the state and the history finishStroke's callback produces
finishStrokeFn(state, h) ==
    IF state.currentStroke = Null
    THEN [state |-> state, h |-> h]
    ELSE [state |-> [state EXCEPT
                        !.strokes = Append(state.strokes, state.currentStroke),
                        !.currentStroke = Null],
          h |-> record(h, [type |-> "stroke_add",
                           stroke |-> state.currentStroke])]

finishStrokeIn(w, c) ==
    /\ CanCall(w)
    /\ LET r == finishStrokeFn(drawing[w], history[w])
       IN  /\ broadcastUpdate("drawing", w, r.state)
           /\ DrawingDoneIn(w, "finishStroke", r.state, r.h, Null,
                            Msg("drawing", w, r.state), FALSE, c)

finishStroke(w) == finishStrokeIn(w, canvas[w])

cancelStrokeIn(w, c) ==
    /\ CanCall(w)
    /\ LET newState == [drawing[w] EXCEPT !.currentStroke = Null]
       IN  /\ broadcastUpdate("drawing", w, newState)
           /\ DrawingDoneIn(w, "cancelStroke", newState, history[w], Null,
                            Msg("drawing", w, newState), FALSE, c)

cancelStroke(w) == cancelStrokeIn(w, canvas[w])

addStroke(w, pts, recordHistory) ==
    /\ CanCall(w)
    /\ idsLeft > 0
    /\ LET stroke == Stroke(nextId, pts)
           newState == [drawing[w] EXCEPT !.strokes = Append(@, stroke)]
           newHistory == IF recordHistory
                         THEN record(history[w],
                                     [type |-> "stroke_add", stroke |-> stroke])
                         ELSE history[w]
       IN  /\ broadcastUpdate("drawing", w, newState)
           /\ DrawingDone(w, "addStroke", newState, newHistory, Null,
                          Msg("drawing", w, newState), TRUE)

\* a clear that records the strokes left after clearing
clearHistoryFn_after(state, h) ==
    IF Len(state.strokes) > 0
    THEN record(h, [type |-> "strokes_clear", strokes |-> initialState.strokes])
    ELSE h

\* a clear that records an entry for an empty list too
clearHistoryFn_always(state, h) ==
    record(h, [type |-> "strokes_clear", strokes |-> state.strokes])

\* the history clear leaves: a strokes_clear entry only for a non-empty list
clearHistoryFn(state, h) ==
    IF Len(state.strokes) > 0
    THEN record(h, [type |-> "strokes_clear", strokes |-> state.strokes])
    ELSE h

clear(w) ==
    /\ CanCall(w)
    /\ broadcastSet("drawing", w, initialState)
    /\ DrawingDone(w, "clear", initialState,
                   clearHistoryFn(drawing[w], history[w]), Null,
                   Msg("drawing", w, initialState), FALSE)

\* a callback that only checks the index against the length: a negative
\* index reaches the splice, which counts it from the end
removeStrokeFn_upperOnly(state, h, index, recordHistory) ==
    IF index >= Len(state.strokes)
    THEN [state |-> state, h |-> h]
    ELSE [state |-> [state EXCEPT !.strokes =
                        IF index < 0 THEN DropLast(@)
                        ELSE SpliceRemove(@, index)],
          h |-> IF recordHistory
                THEN record(h, [type |-> "stroke_remove",
                                stroke |-> IF index < 0 THEN Null
                                           ELSE state.strokes[index + 1],
                                index |-> index])
                ELSE h]

\* the state and the history removeStroke's callback produces (0-based index)
removeStrokeFn(state, h, index, recordHistory) ==
    IF index < 0 \/ index >= Len(state.strokes)
    THEN [state |-> state, h |-> h]
    ELSE [state |-> [state EXCEPT !.strokes = SpliceRemove(@, index)],
          h |-> IF recordHistory
                THEN record(h, [type |-> "stroke_remove",
                                stroke |-> state.strokes[index + 1],
                                index |-> index])
                ELSE h]

removeStroke(w, index, recordHistory) ==
    /\ CanCall(w)
    /\ LET r == removeStrokeFn(drawing[w], history[w], index, recordHistory)
       IN  /\ broadcastUpdate("drawing", w, r.state)
           /\ DrawingDone(w, "removeStroke", r.state, r.h, Null,
                          Msg("drawing", w, r.state), FALSE)

removeLastStroke(w) ==
    /\ CanCall(w)
    /\ LET lastIndex == Len(drawing[w].strokes) - 1
           r == removeStrokeFn(drawing[w], history[w], lastIndex, TRUE)
       IN  IF lastIndex >= 0
           THEN /\ broadcastUpdate("drawing", w, r.state)
                /\ DrawingDone(w, "removeLastStroke", r.state, r.h, Null,
                               Msg("drawing", w, r.state), FALSE)
           ELSE /\ noBroadcast
                /\ DrawingDone(w, "removeLastStroke", drawing[w], history[w],
                               Null, Null, FALSE)

\* a bulk replace that starts a new history
setStrokes_fresh(w, strokes) ==
    /\ CanCall(w)
    /\ LET newState == [drawing[w] EXCEPT !.strokes = strokes]
       IN  /\ broadcastUpdate("drawing", w, newState)
           /\ DrawingDone(w, "setStrokes", newState,
                          [history[w] EXCEPT !.past = <<>>, !.future = <<>>],
                          Null, Msg("drawing", w, newState), FALSE)

setStrokes(w, strokes) ==
    /\ CanCall(w)
    /\ LET newState == [drawing[w] EXCEPT !.strokes = strokes]
       IN  /\ broadcastUpdate("drawing", w, newState)
           /\ DrawingDone(w, "setStrokes", newState, history[w], Null,
                          Msg("drawing", w, newState), FALSE)

\* createEsquisseFile(strokes, existingFile)
createEsquisseFile(strokes) == File(strokes)

\* save: the file is built from the strokes and kept as currentFile by a
\* plain update.  The awaits of save and load (the file dialogs) are taken
\* as immediate: no other event of the window runs in between.
save(w) ==
    /\ CanCall(w)
    /\ LET file == createEsquisseFile(drawing[w].strokes)
           newState == [drawing[w] EXCEPT !.currentFile = file]
       IN  /\ noBroadcast
           /\ DrawingDone(w, "save", newState, history[w], Null, Null, FALSE)

\* load: esquisseFile is the file read, Null when the user cancelled
load(w, esquisseFile) ==
    /\ CanCall(w)
    /\ IF esquisseFile = Null
       THEN /\ noBroadcast
            /\ DrawingDone(w, "load", drawing[w], history[w], Null, Null, FALSE)
       ELSE LET newState == [strokes |-> esquisseFile.strokes,
                             currentStroke |-> Null,
                             currentFile |-> esquisseFile]
            IN  /\ broadcastUpdate("drawing", w, newState)
                /\ DrawingDone(w, "load", newState, history[w], Null,
                               Msg("drawing", w, newState), FALSE)

\* an undo that drops the oldest stroke instead of the newest
undoFn_first(state, action) ==
    CASE action.type = "stroke_add" ->
            [state EXCEPT !.strokes = IF @ = <<>> THEN <<>> ELSE Tail(@)]
      [] action.type = "stroke_remove" ->
            [state EXCEPT !.strokes = SpliceInsert(@, action.index, action.stroke)]
      [] action.type = "strokes_clear" ->
            [state EXCEPT !.strokes = action.strokes]

\* an undo that puts a removed stroke back at the end of the list
undoFn_append(state, action) ==
    CASE action.type = "stroke_add" ->
            [state EXCEPT !.strokes = DropLast(@)]
      [] action.type = "stroke_remove" ->
            [state EXCEPT !.strokes = Append(@, action.stroke)]
      [] action.type = "strokes_clear" ->
            [state EXCEPT !.strokes = action.strokes]

\* an undo that also drops the stroke in progress
undoFn_cancel(state, action) ==
    CASE action.type = "stroke_add" ->
            [state EXCEPT !.strokes = DropLast(@), !.currentStroke = Null]
      [] action.type = "stroke_remove" ->
            [state EXCEPT !.strokes = SpliceInsert(@, action.index, action.stroke),
                          !.currentStroke = Null]
      [] action.type = "strokes_clear" ->
            [state EXCEPT !.strokes = action.strokes, !.currentStroke = Null]

\* the state undo's switch produces for the action history.undo() returned
undoFn(state, action) ==
    CASE action.type = "stroke_add" ->
            [state EXCEPT !.strokes = DropLast(@)]
      [] action.type = "stroke_remove" ->
            [state EXCEPT !.strokes = SpliceInsert(@, action.index, action.stroke)]
      [] action.type = "strokes_clear" ->
            [state EXCEPT !.strokes = action.strokes]

\* an undo that stores the document it produced with the writable's own
\* update, posting nothing
undo_silent(w) ==
    /\ CanCall(w)
    /\ noBroadcast
    /\ LET r == history_undo(history[w])
       IN  IF r.ret = Null
           THEN DrawingDone(w, "undo", drawing[w], r.h, Null, Null, FALSE)
           ELSE DrawingDone(w, "undo", undoFn(drawing[w], r.ret), r.h, r.ret,
                            Null, FALSE)

undo(w) ==
    /\ CanCall(w)
    /\ LET r == history_undo(history[w])
       IN  IF r.ret = Null
           THEN /\ noBroadcast
                /\ DrawingDone(w, "undo", drawing[w], r.h, Null, Null, FALSE)
           ELSE LET newState == undoFn(drawing[w], r.ret)
                IN  /\ broadcastUpdate("drawing", w, newState)
                    /\ DrawingDone(w, "undo", newState, r.h, r.ret,
                                   Msg("drawing", w, newState), FALSE)

\* a redo that removes the last stroke whatever the recorded index
redoFn_dropLast(state, action) ==
    CASE action.type = "stroke_add" ->
            [state EXCEPT !.strokes = Append(@, action.stroke)]
      [] action.type = "stroke_remove" ->
            [state EXCEPT !.strokes = DropLast(@)]
      [] action.type = "strokes_clear" ->
            [state EXCEPT !.strokes = <<>>]

\* the state redo's switch produces for the action history.redo() returned
redoFn(state, action) ==
    CASE action.type = "stroke_add" ->
            [state EXCEPT !.strokes = Append(@, action.stroke)]
      [] action.type = "stroke_remove" ->
            [state EXCEPT !.strokes = SpliceRemove(@, action.index)]
      [] action.type = "strokes_clear" ->
            [state EXCEPT !.strokes = <<>>]

redo(w) ==
    /\ CanCall(w)
    /\ LET r == history_redo(history[w])
       IN  IF r.ret = Null
           THEN /\ noBroadcast
                /\ DrawingDone(w, "redo", drawing[w], r.h, Null, Null, FALSE)
           ELSE LET newState == redoFn(drawing[w], r.ret)
                IN  /\ broadcastUpdate("drawing", w, newState)
                    /\ DrawingDone(w, "redo", newState, r.h, r.ret,
                                   Msg("drawing", w, newState), FALSE)


\* ---------------------------------------------------- transform store
TransformDone(w, op, newState) ==
    /\ transform' = [transform EXCEPT ![w] = newState]
    /\ left' = left - 1
    /\ last' = [op |-> op, win |-> w, store |-> "transform", ret |-> Null,
                msg |-> Msg("transform", w, newState)]
    /\ UNCHANGED <<live, canvas, channel, version, checks, drawing, settings, history, isReceiving, nextId,
                   idsLeft, applied, pre, undoTo>>

\* a callback that clamps the scale from below only
zoomFn_noUpper(t, delta, mouseX, mouseY) ==
    LET zoomFactor == Q(1000 + delta, 1000)
        newScale == QMax(MIN_SCALE, QMul(t.scale, zoomFactor))
        worldX == QDiv(QSub(QInt(mouseX), t.x), t.scale)
        worldY == QDiv(QSub(QInt(mouseY), t.y), t.scale)
    IN  IF newScale = t.scale
        THEN t
        ELSE [x |-> QSub(QInt(mouseX), QMul(worldX, newScale)),
              y |-> QSub(QInt(mouseY), QMul(worldY, newScale)),
              scale |-> newScale]

\* the transform zoom's callback returns
zoomFn(t, delta, mouseX, mouseY) ==
    LET zoomFactor == Q(1000 + delta, 1000)
        newScale == QMax(MIN_SCALE, QMin(MAX_SCALE, QMul(t.scale, zoomFactor)))
        worldX == QDiv(QSub(QInt(mouseX), t.x), t.scale)
        worldY == QDiv(QSub(QInt(mouseY), t.y), t.scale)
    IN  IF newScale = t.scale
        THEN t
        ELSE [x |-> QSub(QInt(mouseX), QMul(worldX, newScale)),
              y |-> QSub(QInt(mouseY), QMul(worldY, newScale)),
              scale |-> newScale]

zoom(w, delta, mouse) ==
    /\ CanCall(w)
    /\ LET newState == zoomFn(transform[w], delta, mouse[1], mouse[2])
       IN  /\ broadcastUpdate("transform", w, newState)
           /\ TransformDone(w, "zoom", newState)

\* a callback that pans by the delta divided by the scale
panFn_scaled(t, deltaX, deltaY) ==
    [x |-> QAdd(t.x, QDiv(QInt(deltaX), t.scale)),
     y |-> QAdd(t.y, QDiv(QInt(deltaY), t.scale)),
     scale |-> t.scale]

panFn(t, deltaX, deltaY) ==
    [x |-> QAdd(t.x, QInt(deltaX)), y |-> QAdd(t.y, QInt(deltaY)),
     scale |-> t.scale]

pan(w, delta) ==
    /\ CanCall(w)
    /\ LET newState == panFn(transform[w], delta[1], delta[2])
       IN  /\ broadcastUpdate("transform", w, newState)
           /\ TransformDone(w, "pan", newState)

\* a reset that sets the store and posts nothing
transform_reset_local(w) ==
    /\ CanCall(w)
    /\ noBroadcast
    /\ TransformDone(w, "reset", INITIAL_TRANSFORM)

transform_reset(w) ==
    /\ CanCall(w)
    /\ broadcastSet("transform", w, INITIAL_TRANSFORM)
    /\ TransformDone(w, "reset", INITIAL_TRANSFORM)

\* ------------------------------------------- coordinates, as computed
\* screenToWorld: (screenX - transform.x) / transform.scale, and the same
\* for y, each operation rounded
screenToWorld(screenX, screenY, t) ==
    [x |-> FDiv(FSub(screenX, t.x), t.scale),
     y |-> FDiv(FSub(screenY, t.y), t.scale)]

\* a conversion that scales the world point and leaves out the pan offset
worldToScreen_noPan(worldX, worldY, t) ==
    [x |-> FMul(worldX, t.scale), y |-> FMul(worldY, t.scale)]

\* worldToScreen: worldX * transform.scale + transform.x, and the same for y
worldToScreen(worldX, worldY, t) ==
    [x |-> FAdd(FMul(worldX, t.scale), t.x),
     y |-> FAdd(FMul(worldY, t.scale), t.y)]

\* 1 + delta * 0.001, the literal 0.001 being the number nearest to 1/1000
zoomFactor(delta) == FAdd(QInt(1), FMul(QInt(delta), Round(Q(1, 1000))))

\* scale * zoomFactor before Math.min and Math.max are applied to it
unclamped(t, delta) == FMul(t.scale, zoomFactor(delta))

\* a zoom callback that places the anchor with the old scale
zoomRounded_oldScale(t, delta, mouseX, mouseY) ==
    LET newScale == QMax(Round(MIN_SCALE), QMin(MAX_SCALE, unclamped(t, delta)))
        worldX == FDiv(FSub(QInt(mouseX), t.x), t.scale)
        worldY == FDiv(FSub(QInt(mouseY), t.y), t.scale)
    IN  IF newScale = t.scale
        THEN t
        ELSE [x |-> FSub(QInt(mouseX), FMul(worldX, t.scale)),
              y |-> FSub(QInt(mouseY), FMul(worldY, t.scale)),
              scale |-> newScale]

\* what zoom's callback returns, each operation rounded; Math.max and
\* Math.min return one of their arguments, and the literal 0.01 is the
\* number nearest to 1/100
zoomRounded(t, delta, mouseX, mouseY) ==
    LET newScale == QMax(Round(MIN_SCALE), QMin(MAX_SCALE, unclamped(t, delta)))
        worldX == FDiv(FSub(QInt(mouseX), t.x), t.scale)
        worldY == FDiv(FSub(QInt(mouseY), t.y), t.scale)
    IN  IF newScale = t.scale
        THEN t
        ELSE [x |-> FSub(QInt(mouseX), FMul(worldX, newScale)),
              y |-> FSub(QInt(mouseY), FMul(worldY, newScale)),
              scale |-> newScale]

\* transform.zoom(delta, mouseX, mouseY) in window w, as computed
zoomGesture(w, delta, mouse) ==
    /\ CanCall(w)
    /\ LET newState == zoomRounded(transform[w], delta, mouse[1], mouse[2])
       IN  /\ broadcastUpdate("transform", w, newState)
           /\ transform' = [transform EXCEPT ![w] = newState]
           /\ last' = [op |-> "zoom", win |-> w, store |-> "transform",
                       ret |-> [delta |-> delta, mouseX |-> QInt(mouse[1]),
                               mouseY |-> QInt(mouse[2]),
                               before |-> transform[w]],
                       msg |-> Msg("transform", w, newState)]
    /\ left' = left - 1
    /\ UNCHANGED <<live, canvas, channel, version, checks, drawing, settings, history, isReceiving, nextId,
                   idsLeft, applied, pre, undoTo>>

\* window w converts the screen point p with its transform
toWorld(w, p) ==
    /\ live[w]
    /\ last' = [op |-> "screenToWorld", win |-> w, store |-> "transform",
                ret |-> [from |-> [x |-> QInt(p[1]), y |-> QInt(p[2])],
                        to |-> screenToWorld(QInt(p[1]), QInt(p[2]),
                                             transform[w])],
                msg |-> Null]
    /\ UNCHANGED <<live, canvas, channel, version, checks, drawing, transform, settings, history, isReceiving,
                   chan, nextId, idsLeft, left, mutations, posted, applied,
                   heard, pre, undoTo>>

\* window w converts the world point p with its transform
toScreen(w, p) ==
    /\ live[w]
    /\ last' = [op |-> "worldToScreen", win |-> w, store |-> "transform",
                ret |-> [from |-> [x |-> QInt(p[1]), y |-> QInt(p[2])],
                        to |-> worldToScreen(QInt(p[1]), QInt(p[2]),
                                             transform[w])],
                msg |-> Null]
    /\ UNCHANGED <<live, canvas, channel, version, checks, drawing, transform, settings, history, isReceiving,
                   chan, nextId, idsLeft, left, mutations, posted, applied,
                   heard, pre, undoTo>>

\* ----------------------------------------------------- settings store
SettingsDone(w, op, newState) ==
    /\ settings' = [settings EXCEPT ![w] = newState]
    /\ left' = left - 1
    /\ last' = [op |-> op, win |-> w, store |-> "settings", ret |-> Null,
                msg |-> Msg("settings", w, newState)]
    /\ UNCHANGED <<live, canvas, channel, version, checks, drawing, transform, history, isReceiving, nextId,
                   idsLeft, applied, pre, undoTo>>

setColor(w, color) ==
    /\ CanCall(w)
    /\ LET newState == [settings[w] EXCEPT !.color = color]
       IN  /\ broadcastUpdate("settings", w, newState)
           /\ SettingsDone(w, "setColor", newState)

\* a setter that builds the value from the initial settings
setWidth_fresh(w, width) ==
    /\ CanCall(w)
    /\ LET newState == [INITIAL_SETTINGS EXCEPT !.width = width]
       IN  /\ broadcastUpdate("settings", w, newState)
           /\ SettingsDone(w, "setWidth", newState)

setWidth(w, width) ==
    /\ CanCall(w)
    /\ LET newState == [settings[w] EXCEPT !.width = width]
       IN  /\ broadcastUpdate("settings", w, newState)
           /\ SettingsDone(w, "setWidth", newState)

setViewportCulling(w, viewportCulling) ==
    /\ CanCall(w)
    /\ LET newState == [settings[w] EXCEPT !.viewportCulling = viewportCulling]
       IN  /\ broadcastUpdate("settings", w, newState)
           /\ SettingsDone(w, "setViewportCulling", newState)

setPressureCurve(w, pressureCurve) ==
    /\ CanCall(w)
    /\ LET newState == [settings[w] EXCEPT !.pressureCurve = pressureCurve]
       IN  /\ broadcastUpdate("settings", w, newState)
           /\ SettingsDone(w, "setPressureCurve", newState)

setTiltEnabled(w, tiltEnabled) ==
    /\ CanCall(w)
    /\ LET newState == [settings[w] EXCEPT !.tiltEnabled = tiltEnabled]
       IN  /\ broadcastUpdate("settings", w, newState)
           /\ SettingsDone(w, "setTiltEnabled", newState)

setPressureMultiplier(w, pressureMultiplier) ==
    /\ CanCall(w)
    /\ LET newState == [settings[w] EXCEPT
                           !.pressureMultiplier = pressureMultiplier]
       IN  /\ broadcastUpdate("settings", w, newState)
           /\ SettingsDone(w, "setPressureMultiplier", newState)

\* a reset that puts back the colour and the width only
settings_reset_partial(w) ==
    /\ CanCall(w)
    /\ LET newState == [settings[w] EXCEPT !.color = INITIAL_SETTINGS.color,
                                           !.width = INITIAL_SETTINGS.width]
       IN  /\ broadcastSet("settings", w, newState)
           /\ SettingsDone(w, "reset", newState)

settings_reset(w) ==
    /\ CanCall(w)
    /\ broadcastSet("settings", w, INITIAL_SETTINGS)
    /\ SettingsDone(w, "reset", INITIAL_SETTINGS)

\* ------------------------------------------------------ version store
\* what a step of checkForUpdates leaves behind
VersionDone(w, op, newState, newChecks, ret, calls) ==
    /\ version' = [version EXCEPT ![w] = newState]
    /\ checks' = [checks EXCEPT ![w] = newChecks]
    /\ left' = left - calls
    /\ last' = [op |-> op, win |-> w, store |-> "version", ret |-> ret,
                msg |-> Null]
    /\ UNCHANGED <<live, canvas, channel, drawing, transform, settings, history,
                   isReceiving, chan, nextId, idsLeft, mutations, posted,
                   applied, heard, pre, undoTo>>

\* the calls in flight without the i-th, which has returned
Returned(calls, i) == SubSeq(calls, 1, i - 1) \o SubSeq(calls, i + 1, Len(calls))

\* checkForUpdates(), up to its first await: nothing in a dev build,
\* otherwise checking is set and the fetch is sent
checkForUpdates(w) ==
    /\ CanCall(w)
    /\ IF version[w].currentVersion = "dev"
       THEN VersionDone(w, "checkForUpdates", version[w], checks[w], "dev", 1)
       ELSE VersionDone(w, "checkForUpdates",
                        [version[w] EXCEPT !.checking = TRUE],
                        Append(checks[w], "fetch"), "fetch", 1)

\* the fetch of the i-th call in flight settles: a response that is ok, a
\* response that is not, or a rejection
fetchSettles(w, i, outcome) ==
    /\ live[w]
    /\ i \in 1..Len(checks[w])
    /\ checks[w][i] = "fetch"
    /\ CASE outcome = "ok" ->
              VersionDone(w, "fetch", version[w],
                          [checks[w] EXCEPT ![i] = "json"], outcome, 0)
         [] outcome = "notOk" ->
              VersionDone(w, "fetch", version[w], Returned(checks[w], i),
                          outcome, 0)
         [] outcome = "throws" ->
              VersionDone(w, "fetch", [version[w] EXCEPT !.checking = FALSE],
                          Returned(checks[w], i), outcome, 0)

\* response.json() of the i-th call in flight settles: a rejection, or the
\* data whose buildTimestamp is given ("undefined" when it has none)
jsonSettles(w, i, throws, buildTimestamp) ==
    /\ live[w]
    /\ i \in 1..Len(checks[w])
    /\ checks[w][i] = "json"
    /\ IF throws
       THEN VersionDone(w, "json", [version[w] EXCEPT !.checking = FALSE],
                        Returned(checks[w], i), "throws", 0)
       ELSE VersionDone(w, "json",
                        [version[w] EXCEPT
                            !.latestVersion = buildTimestamp,
                            !.hasUpdate =
                                buildTimestamp # version[w].currentVersion,
                            !.checking = FALSE],
                        Returned(checks[w], i), "ok", 0)

\* ------------------------------------------------- inbound messages
\* a handler that merges event.data into the store and keeps the local
\* stroke in progress
setData_merge(state, data) ==
    IF "currentStroke" \in DOMAIN data
    THEN [data EXCEPT !.currentStroke = state.currentStroke]
    ELSE data

\* the value set(event.data) leaves in the store that held `state`
setData(state, data) == data

\* a handler that hands event.data to the broadcasting replace instead of
\* the writable's own set, with no isReceiving guard around the post: the
\* value is posted again whenever it changed the store
onmessage_relay(s, a, b) ==
    /\ live[b]
    /\ chan[s][a][b] # <<>>
    /\ LET data == Head(chan[s][a][b])
           changed == data # Value(s, b)
       IN  /\ drawing' = IF s = "drawing"
                         THEN [drawing EXCEPT ![b] = setData(@, data)]
                         ELSE drawing
           /\ transform' = IF s = "transform"
                           THEN [transform EXCEPT ![b] = setData(@, data)]
                           ELSE transform
           /\ settings' = IF s = "settings"
                          THEN [settings EXCEPT ![b] = setData(@, data)]
                          ELSE settings
           /\ isReceiving' = isReceiving
           /\ chan' = [chan EXCEPT ![s] = [x \in Win |-> [y \in Win |->
                         IF x = a /\ y = b THEN Tail(@[x][y])
                         ELSE IF changed /\ x = b /\ y # b /\ live[y]
                              THEN Append(@[x][y], data)
                              ELSE @[x][y]]]]
           /\ posted' = IF changed THEN [posted EXCEPT ![s][b] = @ + 1]
                        ELSE posted
           /\ heard' = IF changed
                       THEN [heard EXCEPT ![s] = [y \in Win |->
                               IF y # b /\ live[y] THEN @[y] + 1 ELSE @[y]]]
                       ELSE heard
    /\ applied' = [applied EXCEPT ![s][b] = @ + 1]
    /\ last' = [op |-> "onmessage", win |-> b, store |-> s, ret |-> Null,
                msg |-> Null]
    /\ undoTo' = IF s = "drawing" THEN [undoTo EXCEPT ![b] = NoRun] ELSE undoTo
    /\ UNCHANGED <<live, canvas, channel, version, checks, history, nextId, idsLeft, left, mutations, pre>>

\* a handler of the drawing store that enters the replaced document in the
\* receiving window's history as a clear of the strokes it held
onmessage_recorded(s, a, b) ==
    /\ live[b]
    /\ chan[s][a][b] # <<>>
    /\ LET data == Head(chan[s][a][b])
       IN  /\ drawing' = IF s = "drawing"
                         THEN [drawing EXCEPT ![b] = setData(@, data)]
                         ELSE drawing
           /\ transform' = IF s = "transform"
                           THEN [transform EXCEPT ![b] = setData(@, data)]
                           ELSE transform
           /\ settings' = IF s = "settings"
                          THEN [settings EXCEPT ![b] = setData(@, data)]
                          ELSE settings
    /\ history' = IF s = "drawing"
                  THEN [history EXCEPT ![b] =
                          record(@, [type |-> "strokes_clear",
                                     strokes |-> drawing[b].strokes])]
                  ELSE history
    /\ chan' = [chan EXCEPT ![s][a][b] = Tail(@)]
    /\ applied' = [applied EXCEPT ![s][b] = @ + 1]
    /\ last' = [op |-> "onmessage", win |-> b, store |-> s, ret |-> Null,
                msg |-> Null]
    /\ undoTo' = IF s = "drawing" THEN [undoTo EXCEPT ![b] = NoRun] ELSE undoTo
    /\ UNCHANGED <<live, canvas, channel, version, checks, isReceiving, nextId, idsLeft, left, mutations, posted,
                   heard, pre>>

\* channel.onmessage of store s in window b, for the oldest message of a:
\* isReceiving = true; set(event.data); isReceiving = false.  set is the
\* writable's own set: it reaches neither broadcast helper.
onmessage(s, a, b) ==
    /\ live[b]
    /\ chan[s][a][b] # <<>>
    /\ LET data == Head(chan[s][a][b])
           receiving == [isReceiving EXCEPT ![s][b] = TRUE]
       IN  /\ drawing' = IF s = "drawing"
                         THEN [drawing EXCEPT ![b] = setData(@, data)]
                         ELSE drawing
           /\ transform' = IF s = "transform"
                           THEN [transform EXCEPT ![b] = setData(@, data)]
                           ELSE transform
           /\ settings' = IF s = "settings"
                          THEN [settings EXCEPT ![b] = setData(@, data)]
                          ELSE settings
           /\ isReceiving' = [receiving EXCEPT ![s][b] = FALSE]
    /\ chan' = [chan EXCEPT ![s][a][b] = Tail(@)]
    /\ applied' = [applied EXCEPT ![s][b] = @ + 1]
    /\ last' = [op |-> "onmessage", win |-> b, store |-> s, ret |-> Null,
                msg |-> Null]
    /\ undoTo' = IF s = "drawing" THEN [undoTo EXCEPT ![b] = NoRun] ELSE undoTo
    /\ UNCHANGED <<live, canvas, channel, version, checks, history, nextId, idsLeft, left, mutations, posted,
                   heard, pre>>

\* ------------------------------------------------------ file validation
\* a validator that accepts a stroke without points
validateStroke_anyLength(stroke) == stroke.points >= 0

\* validateStroke, on what the model keeps of a stroke: points is an array
\* and it is not empty
validateStroke(stroke) == stroke.points > 0

validateEsquisseFile(file) ==
    \A i \in 1..Len(file.strokes) : validateStroke(file.strokes[i])

\* readEsquisseFile: the file read, or Null when deserializeEsquisseFile
\* throws; load then ends before it touches the store, as it does when the
\* selection is cancelled
readEsquisseFile(data) ==
    IF data # Null /\ validateEsquisseFile(data) THEN data ELSE Null

\* ------------------------------------------------------ Canvas handlers
\* a handler that changes the flags of the Canvas and calls no store
CanvasDone(w, op, c) ==
    /\ canvas' = [canvas EXCEPT ![w] = c]
    /\ last' = [op |-> op, win |-> w, store |-> "drawing", ret |-> Null,
                msg |-> Null]
    /\ UNCHANGED <<live, channel, version, checks, drawing, transform, settings, history,
                   isReceiving, chan, nextId, idsLeft, left, mutations, posted,
                   applied, heard, pre, undoTo>>

\* a pointer down that starts a stroke without a point
handlePointerDown_noPoint(w) ==
    /\ ~canvas[w].isMultiTouch
    /\ startStrokeIn(w, 0, [canvas[w] EXCEPT !.isDrawing = TRUE])

\* pointer down of the left button, no mode key held: the stroke starts with
\* the point under the pointer
handlePointerDown(w) ==
    /\ ~canvas[w].isMultiTouch
    /\ startStrokeIn(w, 1, [canvas[w] EXCEPT !.isDrawing = TRUE])

\* pointer move while drawing: the points of the stroke in progress and the
\* point under the pointer
handlePointerMove(w) ==
    /\ canvas[w].isDrawing
    /\ drawing[w].currentStroke # Null
    /\ ~canvas[w].isMultiTouch
    /\ drawing[w].currentStroke.points < MaxPts
    /\ updateCurrentStrokeIn(w, drawing[w].currentStroke.points + 1, canvas[w])

\* pointer up of the left button while drawing
handlePointerUp(w) ==
    /\ canvas[w].isDrawing
    /\ drawing[w].currentStroke # Null
    /\ finishStrokeIn(w, [canvas[w] EXCEPT !.isDrawing = FALSE])

\* a touch start that cancels the stroke and leaves isDrawing set
handleTouchStart_stillDrawing(w, touches) ==
    /\ live[w]
    /\ IF touches >= 2 /\ canvas[w].isDrawing
       THEN cancelStrokeIn(w, [isDrawing |-> TRUE, isMultiTouch |-> TRUE])
       ELSE CanvasDone(w, "handleTouchStart",
                       [canvas[w] EXCEPT !.isMultiTouch = touches >= 2])

\* touch start with the given number of touches on the screen
handleTouchStart(w, touches) ==
    /\ live[w]
    /\ IF touches >= 2 /\ canvas[w].isDrawing
       THEN cancelStrokeIn(w, [isDrawing |-> FALSE, isMultiTouch |-> TRUE])
       ELSE CanvasDone(w, "handleTouchStart",
                       [canvas[w] EXCEPT !.isMultiTouch = touches >= 2])

\* touch end or cancel that leaves fewer than two touches on the screen
handleTouchEnd(w) ==
    /\ live[w]
    /\ canvas[w].isMultiTouch
    /\ CanvasDone(w, "handleTouchEnd",
                  [canvas[w] EXCEPT !.isMultiTouch = FALSE])

\* the Load button: the file selected is read, then loaded
handleLoad(w, data) == load(w, readEsquisseFile(data))

\* ------------------------------------------------------ window lifetime
\* a window is created: its stores are constructed with their initial
\* values and start listening
open(w) ==
    /\ ~live[w]
    /\ live' = [live EXCEPT ![w] = TRUE]
    /\ channel' = [s \in Store |-> [channel[s] EXCEPT ![w] = constructed(TRUE)]]
    /\ last' = [op |-> "open", win |-> w, store |-> "drawing", ret |-> Null,
                msg |-> Null]
    /\ UNCHANGED <<canvas, version, checks, drawing, transform, settings, history, isReceiving,
                   chan, nextId, idsLeft, left, mutations, posted, applied,
                   heard, pre, undoTo>>

\* a window other than the control window goes away: its stores and what
\* was still queued for it are gone; what it posted stays in flight
close(w) ==
    /\ live[w]
    /\ w # 1
    /\ live' = [live EXCEPT ![w] = FALSE]
    /\ canvas' = [canvas EXCEPT ![w] = initialCanvas]
    /\ version' = [version EXCEPT ![w] = initialVersion(@.currentVersion)]
    /\ checks' = [checks EXCEPT ![w] = <<>>]
    /\ drawing' = [drawing EXCEPT ![w] = initialState]
    /\ transform' = [transform EXCEPT ![w] = INITIAL_TRANSFORM]
    /\ settings' = [settings EXCEPT ![w] = INITIAL_SETTINGS]
    /\ history' = [history EXCEPT ![w] = initialHistory]
    /\ chan' = [s \in Store |-> [a \in Win |-> [b \in Win |->
                   IF b = w THEN <<>> ELSE chan[s][a][b]]]]
    /\ applied' = [s \in Store |-> [applied[s] EXCEPT ![w] = 0]]
    /\ heard' = [s \in Store |-> [heard[s] EXCEPT ![w] = 0]]
    /\ last' = [op |-> "close", win |-> w, store |-> "drawing", ret |-> Null,
                msg |-> Null]
    /\ undoTo' = [undoTo EXCEPT ![w] = NoRun]
    /\ UNCHANGED <<channel, isReceiving, nextId, idsLeft, left, mutations,
                   posted, pre>>

\* ------------------------------------------------------ specifications
DrawingCall(w) ==
    \/ \E pts \in 1..1 : startStroke(w, pts)
    \/ \E pts \in 1..MaxPts : updateCurrentStroke(w, pts)
    \/ finishStroke(w)
    \/ cancelStroke(w)
    \/ \E rec \in BOOLEAN : addStroke(w, 1, rec)
    \/ clear(w)
    \/ \E i \in -1..Len(drawing[w].strokes), rec \in BOOLEAN :
          removeStroke(w, i, rec)
    \/ removeLastStroke(w)
    \/ \E f \in Files : setStrokes(w, f.strokes)
    \/ save(w)
    \/ \E f \in Files \cup {Null} : load(w, f)
    \/ undo(w)
    \/ redo(w)

TransformCall(w) ==
    \/ \E delta \in ZoomDeltas, mouse \in Anchors : zoom(w, delta, mouse)
    \/ \E delta \in PanDeltas : pan(w, delta)
    \/ transform_reset(w)

SettingsCall(w) ==
    \/ \E color \in Colors : setColor(w, color)
    \/ \E width \in Widths : setWidth(w, width)
    \/ setViewportCulling(w, FALSE)
    \/ setPressureCurve(w, 7)
    \/ setTiltEnabled(w, FALSE)
    \/ setPressureMultiplier(w, 20)
    \/ settings_reset(w)

Deliver == \E s \in Store, a \in Win, b \in Win : onmessage(s, a, b)

Lifetime == \E w \in Win : open(w) \/ close(w)

Next ==
    \/ \E w \in Win : DrawingCall(w)
    \/ \E w \in Win : TransformCall(w)
    \/ \E w \in Win : SettingsCall(w)
    \/ Deliver
    \/ Lifetime

Spec == Init /\ [][Next]_vars

\* windows are created one after the other and stay; every window calls
\* store methods; messages are eventually handled: the browser runs every
\* queued message event of a window that stays open
NextFair ==
    \/ \E w \in Win : DrawingCall(w) \/ TransformCall(w) \/ SettingsCall(w)
    \/ Deliver
    \/ \E w \in Win : (\A v \in 1..(w - 1) : live[v]) /\ open(w)

SpecFair == Init /\ [][NextFair]_vars /\ WF_vars(Deliver)

\* the state load leaves in a fresh window
Loaded(f) == [strokes |-> f.strokes, currentStroke |-> Null, currentFile |-> f]

\* one writer: only the control window calls store methods; the other
\* windows are created one after the other and only listen.  The control
\* window has worked alone first: it loaded a file, panned and picked a
\* colour, and each of the three messages was posted to no listener.
WorkedAlone == [s \in Store |-> [w \in Win |-> IF w = 1 THEN 1 ELSE 0]]

InitOneWriter ==
    /\ live = [w \in Win |-> w = 1]
    /\ canvas = [w \in Win |-> initialCanvas]
    /\ channel = [s \in Store |-> [w \in Win |-> constructed(live[w])]]
    /\ drawing = [w \in Win |->
                    IF w = 1 THEN Loaded(File(<<>>))
                    ELSE initialState]
    /\ transform = [w \in Win |->
                      IF w = 1 THEN panFn(INITIAL_TRANSFORM, 10, -5)
                      ELSE INITIAL_TRANSFORM]
    /\ settings = [w \in Win |->
                     IF w = 1 THEN [INITIAL_SETTINGS EXCEPT !.color = "#ff0000"]
                     ELSE INITIAL_SETTINGS]
    /\ history = [w \in Win |-> initialHistory]
    /\ isReceiving = [s \in Store |-> [w \in Win |-> FALSE]]
    /\ chan = [s \in Store |-> [a \in Win |-> [b \in Win |-> <<>>]]]
    /\ nextId = 1
    /\ idsLeft = MaxStrokes
    /\ left = MaxWrites
    /\ mutations = WorkedAlone /\ posted = WorkedAlone
    /\ applied = Zero /\ heard = Zero
    /\ last = [op |-> "init", win |-> 1, store |-> "drawing", ret |-> Null,
               msg |-> Null]
    /\ pre = [drawing |-> drawing[1], history |-> initialHistory]
    /\ undoTo = [w \in Win |-> NoRun]
    /\ version = [w \in Win |-> initialVersion("dev")]
    /\ checks = [w \in Win |-> <<>>]

NextOneWriter ==
    \/ DrawingCall(1)
    \/ TransformCall(1)
    \/ SettingsCall(1)
    \/ Deliver
    \/ \E w \in Win : (\A v \in 1..(w - 1) : live[v]) /\ open(w)

SpecOneWriter == InitOneWriter /\ [][NextOneWriter]_vars

\* one window and its drawing store and history, starting empty or from a
\* file just loaded
InitHistory ==
    /\ live = [w \in Win |-> w = 1]
    /\ canvas = [w \in Win |-> initialCanvas]
    /\ channel = [s \in Store |-> [w \in Win |-> constructed(live[w])]]
    /\ \E f \in Files : drawing = [w \in Win |-> IF w = 1 THEN Loaded(f)
                                                 ELSE initialState]
    /\ transform = [w \in Win |-> INITIAL_TRANSFORM]
    /\ settings = [w \in Win |-> INITIAL_SETTINGS]
    /\ history = [w \in Win |-> initialHistory]
    /\ isReceiving = [s \in Store |-> [w \in Win |-> FALSE]]
    /\ chan = [s \in Store |-> [a \in Win |-> [b \in Win |-> <<>>]]]
    /\ nextId = 1
    /\ idsLeft = MaxStrokes
    /\ left = MaxHistOps
    /\ mutations = Zero /\ posted = Zero /\ applied = Zero /\ heard = Zero
    /\ last = [op |-> "init", win |-> 1, store |-> "drawing", ret |-> Null,
               msg |-> Null]
    /\ pre = [drawing |-> drawing[1], history |-> initialHistory]
    /\ undoTo = [w \in Win |-> NoRun]
    /\ version = [w \in Win |-> initialVersion("dev")]
    /\ checks = [w \in Win |-> <<>>]

NextHistory == DrawingCall(1)

SpecHistory == InitHistory /\ [][NextHistory]_vars

\* one window that commits MaxRecords strokes one after the other and then
\* undoes as far as it can
InitBound ==
    /\ Init!1 /\ Init!2 /\ Init!3 /\ Init!4 /\ Init!5 /\ Init!6 /\ Init!7
    /\ Init!8 /\ Init!9
    /\ nextId = 1
    /\ idsLeft = MaxRecords
    /\ left = 3 * MaxRecords
    /\ mutations = Zero /\ posted = Zero /\ applied = Zero /\ heard = Zero
    /\ last = [op |-> "init", win |-> 1, store |-> "drawing", ret |-> Null,
               msg |-> Null]
    /\ pre = [drawing |-> initialState, history |-> initialHistory]
    /\ undoTo = [w \in Win |-> NoRun]
    /\ version = [w \in Win |-> initialVersion("dev")]
    /\ checks = [w \in Win |-> <<>>]

NextBound ==
    \/ drawing[1].currentStroke = Null /\ startStroke(1, 1)
    \/ drawing[1].currentStroke # Null /\ finishStroke(1)
    \/ idsLeft = 0 /\ drawing[1].currentStroke = Null /\ undo(1)

SpecBound == InitBound /\ [][NextBound]_vars


\* one window that receives nothing: it commits up to MaxCommits strokes
\* onto an empty document (startStroke, perhaps more points, finishStroke),
\* then undoes some of them, then redoes some of those
InitOrder ==
    /\ Init!1 /\ Init!2 /\ Init!3 /\ Init!4 /\ Init!5 /\ Init!6 /\ Init!7
    /\ Init!8 /\ Init!9
    /\ nextId = 1
    /\ idsLeft = MaxCommits
    /\ left = 5 * MaxCommits
    /\ mutations = Zero /\ posted = Zero /\ applied = Zero /\ heard = Zero
    /\ last = [op |-> "init", win |-> 1, store |-> "drawing", ret |-> Null,
               msg |-> Null]
    /\ pre = [drawing |-> initialState, history |-> initialHistory]
    /\ undoTo = [w \in Win |-> NoRun]
    /\ version = [w \in Win |-> initialVersion("dev")]
    /\ checks = [w \in Win |-> <<>>]

NextOrder ==
    \/ last.op \in {"init", "finishStroke"} /\ startStroke(1, 1)
    \/ last.op = "startStroke"
          /\ \E pts \in 2..MaxPts : updateCurrentStroke(1, pts)
    \/ last.op \in {"startStroke", "updateCurrentStroke"} /\ finishStroke(1)
    \/ last.op \in {"finishStroke", "undo"} /\ canUndo(history[1]) /\ undo(1)
    \/ last.op \in {"undo", "redo"} /\ canRedo(history[1]) /\ redo(1)

SpecOrder == InitOrder /\ [][NextOrder]_vars

\* the control window has drawn alone (two strokes added, the second
\* undone), then other windows are created one after the other and stay:
\* the control window only undoes and redoes, the others add, remove and
\* replace strokes, undo and redo
InitShared ==
    /\ live = [w \in Win |-> w = 1]
    /\ canvas = [w \in Win |-> initialCanvas]
    /\ channel = [s \in Store |-> [w \in Win |-> constructed(live[w])]]
    /\ drawing = [w \in Win |->
                    IF w = 1 THEN [initialState EXCEPT
                                      !.strokes = <<Stroke(1, 1)>>]
                    ELSE initialState]
    /\ transform = [w \in Win |-> INITIAL_TRANSFORM]
    /\ settings = [w \in Win |-> INITIAL_SETTINGS]
    /\ history = [w \in Win |->
                    IF w = 1
                    THEN [initialHistory EXCEPT
                            !.past = <<[type |-> "stroke_add",
                                        stroke |-> Stroke(1, 1)]>>,
                            !.future = <<[type |-> "stroke_add",
                                          stroke |-> Stroke(2, 1)]>>]
                    ELSE initialHistory]
    /\ isReceiving = [s \in Store |-> [w \in Win |-> FALSE]]
    /\ chan = [s \in Store |-> [a \in Win |-> [b \in Win |-> <<>>]]]
    /\ nextId = 3
    /\ idsLeft = MaxStrokes
    /\ left = MaxShared
    /\ mutations = [Zero EXCEPT !["drawing"][1] = 3]
    /\ posted = [Zero EXCEPT !["drawing"][1] = 3]
    /\ applied = Zero /\ heard = Zero
    /\ last = [op |-> "init", win |-> 1, store |-> "drawing", ret |-> Null,
               msg |-> Null]
    /\ pre = [drawing |-> drawing[1], history |-> history[1]]
    /\ undoTo = [w \in Win |-> NoRun]
    /\ version = [w \in Win |-> initialVersion("dev")]
    /\ checks = [w \in Win |-> <<>>]

NextShared ==
    \/ undo(1)
    \/ redo(1)
    \/ \E w \in Win \ {1} :
          \/ addStroke(w, 1, TRUE)
          \/ removeLastStroke(w)
          \/ clear(w)
          \/ setStrokes(w, <<FileStrokeA>>)
          \/ undo(w)
          \/ redo(w)
    \/ Deliver
    \/ \E w \in Win : (\A v \in 1..(w - 1) : live[v]) /\ open(w)

SpecShared == InitShared /\ [][NextShared]_vars

\* the value has the fields of the store's value type
WellShaped(s, data) == DOMAIN data = DOMAIN InitialValue(s)

\* event.data is whatever a page of the same origin posted on the channel
\* name: a page of another version posts values of that version's types,
\* such as the DrawingState and DrawingSettings of the shared type
\* declarations, which lack fields of the stores' own
ForeignPayloads(s) ==
    {[version |-> 0]} \cup
    (CASE s = "drawing" -> {[strokes |-> <<FileStrokeA>>]}
       [] s = "settings" -> {[color |-> "#ff0000", width |-> 2]}
       [] OTHER -> {})

\* a page of another version, open in the place of window a, posts data on
\* the channel of store s
postForeign(s, a, data) ==
    /\ ~live[a]
    /\ posted[s][a] < MaxForeign
    /\ postMessage(s, a, data)
    /\ last' = [op |-> "postForeign", win |-> a, store |-> s, ret |-> Null,
                msg |-> data]
    /\ UNCHANGED <<live, canvas, channel, version, checks, drawing, transform, settings, history, isReceiving,
                   nextId, idsLeft, left, mutations, applied, pre, undoTo>>

\* window 1 runs this version and the last window another one
NextForeign ==
    \/ WellShaped("drawing", drawing[1]) /\ addStroke(1, 1, TRUE)
    \/ WellShaped("drawing", drawing[1]) /\ clear(1)
    \/ WellShaped("transform", transform[1])
          /\ \E delta \in PanDeltas : pan(1, delta)
    \/ WellShaped("settings", settings[1])
          /\ \E color \in Colors : setColor(1, color)
    \/ \E s \in Store :
          \E data \in ForeignPayloads(s) : postForeign(s, NWin, data)
    \/ Deliver

SpecForeign == Init /\ [][NextForeign]_vars

\* zoom deltas that reach both limits: a zoomFactor of -1, 0, 2 and 100
WideDeltas == {-2000, -1000, 1000, 99000}

\* the windows, created one after the other, zoom, pan and reset the
\* transform store and handle each other's messages
InitTransform ==
    /\ live = [w \in Win |-> w = 1]
    /\ canvas = [w \in Win |-> initialCanvas]
    /\ channel = [s \in Store |-> [w \in Win |-> constructed(live[w])]]
    /\ drawing = [w \in Win |-> initialState]
    /\ transform = [w \in Win |-> INITIAL_TRANSFORM]
    /\ settings = [w \in Win |-> INITIAL_SETTINGS]
    /\ history = [w \in Win |-> initialHistory]
    /\ isReceiving = [s \in Store |-> [w \in Win |-> FALSE]]
    /\ chan = [s \in Store |-> [a \in Win |-> [b \in Win |-> <<>>]]]
    /\ nextId = 1
    /\ idsLeft = MaxStrokes
    /\ left = MaxZooms
    /\ mutations = Zero /\ posted = Zero /\ applied = Zero /\ heard = Zero
    /\ last = [op |-> "init", win |-> 1, store |-> "transform", ret |-> Null,
               msg |-> Null]
    /\ pre = [drawing |-> initialState, history |-> initialHistory]
    /\ undoTo = [w \in Win |-> NoRun]
    /\ version = [w \in Win |-> initialVersion("dev")]
    /\ checks = [w \in Win |-> <<>>]

NextTransform ==
    \/ \E w \in Win, delta \in WideDeltas : zoom(w, delta, <<400, 300>>)
    \/ \E w \in Win, delta \in PanDeltas : pan(w, delta)
    \/ \E w \in Win : transform_reset(w)
    \/ \E a \in Win, b \in Win : onmessage("transform", a, b)
    \/ \E w \in Win : (\A v \in 1..(w - 1) : live[v]) /\ open(w)

SpecTransform == InitTransform /\ [][NextTransform]_vars

\* the zoom steps of the toolbar buttons and a step that hits the upper
\* limit; the points of the canvas that are converted
GestureDeltas == {-200, 200, 99000}
Points == {<<400, 300>>, <<123, 457>>}

\* one window zooms around the points and converts them
InitNumeric ==
    /\ live = [w \in Win |-> w = 1]
    /\ canvas = [w \in Win |-> initialCanvas]
    /\ channel = [s \in Store |-> [w \in Win |-> constructed(live[w])]]
    /\ drawing = [w \in Win |-> initialState]
    /\ transform = [w \in Win |-> INITIAL_TRANSFORM]
    /\ settings = [w \in Win |-> INITIAL_SETTINGS]
    /\ history = [w \in Win |-> initialHistory]
    /\ isReceiving = [s \in Store |-> [w \in Win |-> FALSE]]
    /\ chan = [s \in Store |-> [a \in Win |-> [b \in Win |-> <<>>]]]
    /\ nextId = 1
    /\ idsLeft = MaxStrokes
    /\ left = MaxGestures
    /\ mutations = Zero /\ posted = Zero /\ applied = Zero /\ heard = Zero
    /\ last = [op |-> "init", win |-> 1, store |-> "transform", ret |-> Null,
               msg |-> Null]
    /\ pre = [drawing |-> initialState, history |-> initialHistory]
    /\ undoTo = [w \in Win |-> NoRun]
    /\ version = [w \in Win |-> initialVersion("dev")]
    /\ checks = [w \in Win |-> <<>>]

NextNumeric ==
    \/ \E delta \in GestureDeltas, mouse \in Points : zoomGesture(1, delta, mouse)
    \/ \E p \in Points : toWorld(1, p)
    \/ \E p \in Points : toScreen(1, p)

SpecNumeric == InitNumeric /\ [][NextNumeric]_vars

\* one window whose history is full: it has committed MAX_HISTORY_SIZE
\* strokes one after the other; it goes on committing, undoing and redoing
InitStack ==
    /\ live = [w \in Win |-> w = 1]
    /\ canvas = [w \in Win |-> initialCanvas]
    /\ channel = [s \in Store |-> [w \in Win |-> constructed(live[w])]]
    /\ drawing = [w \in Win |->
                    IF w = 1
                    THEN [initialState EXCEPT !.strokes =
                            [i \in 1..MAX_HISTORY_SIZE |-> Stroke(i, 1)]]
                    ELSE initialState]
    /\ transform = [w \in Win |-> INITIAL_TRANSFORM]
    /\ settings = [w \in Win |-> INITIAL_SETTINGS]
    /\ history = [w \in Win |->
                    IF w = 1
                    THEN [initialHistory EXCEPT !.past =
                            [i \in 1..MAX_HISTORY_SIZE |->
                                [type |-> "stroke_add", stroke |-> Stroke(i, 1)]]]
                    ELSE initialHistory]
    /\ isReceiving = [s \in Store |-> [w \in Win |-> FALSE]]
    /\ chan = [s \in Store |-> [a \in Win |-> [b \in Win |-> <<>>]]]
    /\ nextId = MAX_HISTORY_SIZE + 1
    /\ idsLeft = MaxStrokes
    /\ left = MaxStackOps
    /\ mutations = [Zero EXCEPT !["drawing"][1] = 2 * MAX_HISTORY_SIZE]
    /\ posted = [Zero EXCEPT !["drawing"][1] = 2 * MAX_HISTORY_SIZE]
    /\ applied = Zero /\ heard = Zero
    /\ last = [op |-> "init", win |-> 1, store |-> "drawing", ret |-> Null,
               msg |-> Null]
    /\ pre = [drawing |-> drawing[1], history |-> history[1]]
    /\ undoTo = [w \in Win |-> NoRun]
    /\ version = [w \in Win |-> initialVersion("dev")]
    /\ checks = [w \in Win |-> <<>>]

NextStack ==
    \/ drawing[1].currentStroke = Null /\ startStroke(1, 1)
    \/ drawing[1].currentStroke # Null /\ finishStroke(1)
    \/ undo(1)
    \/ redo(1)

SpecStack == InitStack /\ [][NextStack]_vars

\* what a user can select in the file dialog: nothing, a file without
\* strokes, a file of two strokes, a file whose stroke has no point
Selections ==
    {Null, File(<<>>), File(<<FileStrokeA, FileStrokeB>>),
     File(<<Stroke(-3, 0)>>)}

\* the first and the last window are open and hear each other: both users
\* draw with the pointer, the first one also touches the screen, the last
\* one loads files
InitCanvas ==
    /\ live = [w \in Win |-> w \in {1, NWin}]
    /\ canvas = [w \in Win |-> initialCanvas]
    /\ channel = [s \in Store |-> [w \in Win |-> constructed(live[w])]]
    /\ drawing = [w \in Win |-> initialState]
    /\ transform = [w \in Win |-> INITIAL_TRANSFORM]
    /\ settings = [w \in Win |-> INITIAL_SETTINGS]
    /\ history = [w \in Win |-> initialHistory]
    /\ isReceiving = [s \in Store |-> [w \in Win |-> FALSE]]
    /\ chan = [s \in Store |-> [a \in Win |-> [b \in Win |-> <<>>]]]
    /\ nextId = 1
    /\ idsLeft = MaxStrokes
    /\ left = MaxCanvasOps
    /\ mutations = Zero
    /\ posted = Zero
    /\ applied = Zero
    /\ heard = Zero
    /\ last = [op |-> "init", win |-> 1, store |-> "drawing", ret |-> Null,
               msg |-> Null]
    /\ pre = [drawing |-> initialState, history |-> initialHistory]
    /\ undoTo = [w \in Win |-> NoRun]
    /\ version = [w \in Win |-> initialVersion("dev")]
    /\ checks = [w \in Win |-> <<>>]

NextCanvas ==
    \/ \E w \in {1, NWin} :
          \/ handlePointerDown(w)
          \/ handlePointerMove(w)
          \/ handlePointerUp(w)
    \/ \E touches \in 1..2 : handleTouchStart(1, touches)
    \/ handleTouchEnd(1)
    \/ \E data \in Selections : handleLoad(NWin, data)
    \/ \E a \in Win, b \in Win : onmessage("drawing", a, b)

SpecCanvas == InitCanvas /\ [][NextCanvas]_vars

\* the first and the last window are open and hear each other; both users
\* set the settings, zoom, pan and reset
InitSettings ==
    /\ live = [w \in Win |-> w \in {1, NWin}]
    /\ Init!2 /\ Init!3 /\ Init!4 /\ Init!5 /\ Init!6 /\ Init!7 /\ Init!8
    /\ Init!9
    /\ nextId = 1
    /\ idsLeft = MaxStrokes
    /\ left = MaxSetOps
    /\ mutations = Zero /\ posted = Zero /\ applied = Zero /\ heard = Zero
    /\ last = [op |-> "init", win |-> 1, store |-> "settings", ret |-> Null,
               msg |-> Null]
    /\ pre = [drawing |-> initialState, history |-> initialHistory]
    /\ undoTo = [w \in Win |-> NoRun]
    /\ version = [w \in Win |-> initialVersion("dev")]
    /\ checks = [w \in Win |-> <<>>]

NextSettings ==
    \/ \E w \in {1, NWin} : SettingsCall(w)
    \/ \E w \in {1, NWin} :
          \/ zoom(w, 1000, <<400, 300>>)
          \/ \E delta \in PanDeltas : pan(w, delta)
          \/ transform_reset(w)
    \/ \E s \in {"settings", "transform"}, a \in Win, b \in Win :
          onmessage(s, a, b)

SpecSettings == InitSettings /\ [][NextSettings]_vars

\* the builds a page can be: a development build, or the build of a
\* timestamp; the timestamps version.json can carry
Builds == {"dev", "t1"}
Timestamps == {"t1", "t2", "undefined"}

\* one window checks for updates, by hand and from its timer; every fetch
\* and every response.json() settles
InitVersion ==
    /\ Init!1 /\ Init!2 /\ Init!3 /\ Init!4 /\ Init!5 /\ Init!6 /\ Init!7
    /\ Init!8 /\ Init!9
    /\ nextId = 1
    /\ idsLeft = MaxStrokes
    /\ left = MaxChecks
    /\ mutations = Zero /\ posted = Zero /\ applied = Zero /\ heard = Zero
    /\ last = [op |-> "init", win |-> 1, store |-> "version", ret |-> Null,
               msg |-> Null]
    /\ pre = [drawing |-> initialState, history |-> initialHistory]
    /\ undoTo = [w \in Win |-> NoRun]
    /\ \E build \in Builds : version = [w \in Win |-> initialVersion(build)]
    /\ checks = [w \in Win |-> <<>>]

Settles ==
    \E w \in Win : \E i \in 1..Len(checks[w]) :
        \/ \E outcome \in {"ok", "notOk", "throws"} : fetchSettles(w, i, outcome)
        \/ jsonSettles(w, i, TRUE, "undefined")
        \/ \E buildTimestamp \in Timestamps :
              jsonSettles(w, i, FALSE, buildTimestamp)

NextVersion ==
    \/ \E w \in Win : checkForUpdates(w)
    \/ Settles

SpecVersion == InitVersion /\ [][NextVersion]_vars /\ WF_vars(Settles)

\* ================================================================ claims
\* messages of store s queued for window b, from every sender
InFlightTo(s, b) == [a \in Win |-> Len(chan[s][a][b])]
RECURSIVE SumOver(_, _)
SumOver(f, S) == IF S = {} THEN 0
                 ELSE LET x == CHOOSE y \in S : TRUE
                      IN  f[x] + SumOver(f, S \ {x})
Quiet == \A s \in Store, a \in Win, b \in Win : chan[s][a][b] = <<>>

\* the case of C1: the only local mutation of store s so far was made by
\* window a, and window b was listening when its message was posted
SingleMutation(s, a, b) ==
    /\ a # b
    /\ mutations[s][a] = 1
    /\ \A w \in Win \ {a} : mutations[s][w] = 0
    /\ live[b]
    /\ heard[s][b] = 1

\* C1 (no-echo): with replicas A and B of one store on one channel, a
\* single local mutation on A posts one message, which B applies exactly
\* once (it is either still queued for B or has been set on B once), and B
\* posts nothing as a result: B has posted no message and none from B is
\* queued for any window.
C1_NoEcho ==
    \A s \in Store, a \in Win, b \in Win :
        SingleMutation(s, a, b) =>
            /\ posted[s][a] = 1
            /\ applied[s][b] + Len(chan[s][a][b]) = 1
            /\ SumOver(InFlightTo(s, b), Win) = Len(chan[s][a][b])
            /\ posted[s][b] = 0
            /\ \A w \in Win : chan[s][b][w] = <<>>

\* B has applied the one message A posted, and holds A's value
C1_Witness ==
    \E s \in Store, a \in Win, b \in Win :
        /\ SingleMutation(s, a, b)
        /\ applied[s][b] = 1
        /\ chan[s][a][b] = <<>>
        /\ Value(s, b) = Value(s, a)
        /\ Value(s, b) # InitialValue(s)

ValueNext(s, w) ==
    CASE s = "drawing" -> drawing'[w]
      [] s = "transform" -> transform'[w]
      [] s = "settings" -> settings'[w]

\* the step is a call of a method of store s made in window w
LocalCall(s, w) ==
    /\ left' = left - 1
    /\ last'.win = w
    /\ last'.store = s

\* C3 (every change is posted): every operation of the drawing, transform
\* and settings stores that changes the store's local value while no inbound
\* message is being applied posts exactly one message to the other windows,
\* and that message carries the value the store holds after the operation.
C3_EveryChangePosts ==
    [][\A s \in Store, w \in Win :
          (LocalCall(s, w) /\ ~isReceiving[s][w]
             /\ ValueNext(s, w) # Value(s, w))
          => /\ posted'[s][w] = posted[s][w] + 1
             /\ last'.msg = ValueNext(s, w)
             /\ \A b \in Win \ {w} :
                   live[b] => chan'[s][w][b] = Append(chan[s][w][b],
                                                      ValueNext(s, w))]_vars

\* the step is window b handling a message of store s sent by window a
Handles(s, a, b) ==
    /\ last'.op = "onmessage"
    /\ last'.win = b
    /\ last'.store = s
    /\ chan[s][a][b] # <<>>
    /\ chan'[s][a][b] = Tail(chan[s][a][b])

\* C4 (whole-value replacement): immediately after a replica handles a
\* message carrying value v, its store value equals v in every field,
\* whatever its value was before.
C4_WholeValue ==
    [][\A s \in Store, a \in Win, b \in Win :
          Handles(s, a, b) => ValueNext(s, b) = Head(chan[s][a][b])]_vars

\* a replica that already held a value it was sent (not the initial one)
\* has handled another message and holds what the writer holds
C4_Witness ==
    \E s \in Store, b \in Win \ {1} :
        /\ last.op = "onmessage" /\ last.win = b /\ last.store = s
        /\ applied[s][b] = 2
        /\ Value(s, b) = Value(s, 1)
        /\ Value(s, b) # InitialValue(s)

\* replica b holds what the writer (window 1) holds in store s: the same
\* transform, the same settings, the same strokes and currentStroke
SameAsWriter(s, b) ==
    CASE s = "drawing" -> /\ drawing[b].strokes = drawing[1].strokes
                          /\ drawing[b].currentStroke = drawing[1].currentStroke
      [] s = "transform" -> transform[b] = transform[1]
      [] s = "settings" -> settings[b] = settings[1]

SameAsWriterNext(s, b) ==
    CASE s = "drawing" -> /\ drawing'[b].strokes = drawing'[1].strokes
                          /\ drawing'[b].currentStroke = drawing'[1].currentStroke
      [] s = "transform" -> transform'[b] = transform'[1]
      [] s = "settings" -> settings'[b] = settings'[1]

Joins(b) == ~live[b] /\ live'[b]

\* the step is the first message of store s that window b handles, and it
\* is a late joiner: the writer had posted before b listened
FirstHandled(s, b) ==
    /\ Handles(s, 1, b)
    /\ applied[s][b] = 0
    /\ posted[s][1] > heard[s][b]

\* C6 as stated (late joiner): a replica created after some messages were
\* posted becomes equal to the writer's value as soon as it applies the
\* first message posted after it started listening.
C6_EqualsWriterAtFirst ==
    [][\A s \in Store, b \in Win \ {1} :
          FirstHandled(s, b) => SameAsWriterNext(s, b)]_vars

\* C6, amended: a replica created after some messages were posted starts
\* from the store's initial value with nothing queued for it, only ever
\* receives messages posted while it was listening, and on applying the
\* first of them holds the value that message carries, the writer's value at
\* the time of posting; that is the writer's strokes, currentStroke,
\* transform and settings of now only if no later message of the writer is
\* still queued for it.
C6_LateJoiner ==
    /\ [][\A b \in Win : Joins(b) =>
             \A s \in Store :
                 /\ ValueNext(s, b) = InitialValue(s)
                 /\ \A a \in Win : chan'[s][a][b] = <<>>]_vars
    /\ [][\A s \in Store, b \in Win \ {1} :
             live'[b] => applied'[s][b] + Len(chan'[s][1][b]) = heard'[s][b]]_vars
    /\ [][\A s \in Store, b \in Win \ {1} :
             FirstHandled(s, b) =>
                 /\ ValueNext(s, b) = Head(chan[s][1][b])
                 /\ Len(chan[s][1][b]) = 1 => SameAsWriterNext(s, b)]_vars

\* a late joiner has handled its first message while a later one is still
\* queued for it: it holds what the writer held, not what the writer holds
C6_Witness ==
    \E s \in Store, b \in Win \ {1} :
        /\ live[b]
        /\ last.op = "onmessage" /\ last.win = b /\ last.store = s
        /\ applied[s][b] = 1
        /\ posted[s][1] > heard[s][b]
        /\ chan[s][1][b] # <<>>
        /\ Value(s, b) # InitialValue(s)
        /\ ~SameAsWriter(s, b)

\* window w has made a run of k >= 1 finishStroke / removeStroke / clear
\* calls and then k undo calls, nothing else touching its drawing store
RunUndone(w) ==
    /\ Len(undoTo[w].run) > 0
    /\ undoTo[w].undone = Len(undoTo[w].run)

\* C7 as stated (undo inverse law): after any sequence of finishStroke /
\* removeStroke / clear calls followed by an equal number of undo() calls,
\* the document (strokes and the stroke in progress) equals the document
\* before the sequence began.
C7_DocumentRestored ==
    \A w \in Win :
        RunUndone(w) => Document(drawing[w]) = undoTo[w].run[1].doc

\* C7, amended: after a sequence of at most MAX_HISTORY_SIZE finishStroke /
\* removeStroke / clear calls that each recorded a history entry, followed
\* by an equal number of undo() calls, the strokes equal the strokes before
\* the sequence began (the stroke in progress is not restored).
C7_StrokesRestored ==
    \A w \in Win :
        (/\ RunUndone(w)
         /\ Len(undoTo[w].run) <= MAX_HISTORY_SIZE
         /\ \A i \in 1..Len(undoTo[w].run) : undoTo[w].run[i].recorded)
        => drawing[w].strokes = undoTo[w].run[1].doc.strokes

\* two recorded calls that changed the strokes have both been undone
C7_Witness ==
    \E w \in Win :
        /\ RunUndone(w)
        /\ Len(undoTo[w].run) = 2
        /\ \A i \in 1..2 : undoTo[w].run[i].recorded
        /\ undoTo[w].run[2].doc.strokes # undoTo[w].run[1].doc.strokes
        /\ drawing[w].strokes = undoTo[w].run[1].doc.strokes
        /\ drawing[w].strokes # <<>>

\* the step is window w calling redo right after its undo returned an entry
RedoRightAfterUndo(w) ==
    /\ last.op = "undo" /\ last.win = w /\ last.ret # Null
    /\ last'.op = "redo" /\ last'.win = w
    /\ left' = left - 1

DrawingStep(w) == LocalCall("drawing", w)

\* C9 (branch discard): after any history.record(entry) the future stack is
\* empty, it stays empty until an undo, and a redo() issued while it is
\* empty returns null and leaves the document and both stacks unchanged.
C9_BranchDiscard ==
    /\ [][\A w \in Win :
             (DrawingStep(w) /\ last'.op \notin {"undo", "redo"}
                /\ history'[w] # history[w])
             => history'[w].future = <<>>]_vars
    /\ [][\A w \in Win :
             (DrawingStep(w) /\ last'.op # "undo" /\ history[w].future = <<>>)
             => history'[w].future = <<>>]_vars
    /\ [][\A w \in Win :
             (DrawingStep(w) /\ last'.op = "redo" /\ history[w].future = <<>>)
             => /\ last'.ret = Null
                /\ drawing'[w] = drawing[w]
                /\ history'[w] = history[w]]_vars

\* an entry was undone and a new entry has just been recorded in its
\* place: the record found a future stack that was not empty and emptied it
C9_Witness ==
    \E w \in Win :
        /\ last.op \in {"addStroke", "finishStroke", "removeStroke", "clear"}
        /\ last.win = w
        /\ pre.history.future # <<>>
        /\ Len(history[w].past) = Len(pre.history.past) + 1
        /\ history[w].future = <<>>

\* the strokes committed so far by the control window, which only commits
Committed == nextId - 1 - (IF drawing[1].currentStroke # Null THEN 1 ELSE 0)

\* seq back to front
Reverse(seq) == [i \in 1..Len(seq) |-> seq[Len(seq) + 1 - i]]

\* C10 (history bound): |past| <= MAX_HISTORY_SIZE in every reachable state
\* of every window; when the control window commits strokes 1, 2, ... one
\* after the other, the log (past, then future back to front) holds the
\* entries of the last MAX_HISTORY_SIZE commits in their original order, so
\* after MAX_HISTORY_SIZE + 1 commits the oldest entry is gone and undoing
\* everything that can be undone leaves the first stroke in the document.
C10_HistoryBound ==
    /\ \A w \in Win : Len(history[w].past) <= MAX_HISTORY_SIZE
    /\ LET log == history[1].past \o Reverse(history[1].future)
           kept == IF Committed > MAX_HISTORY_SIZE THEN MAX_HISTORY_SIZE
                   ELSE Committed
       IN  /\ Len(log) = kept
           /\ \A i \in 1..Len(log) :
                 /\ log[i].type = "stroke_add"
                 /\ log[i].stroke.id = Committed - kept + i
           /\ Len(drawing[1].strokes) = Committed - Len(history[1].future)
           /\ \A i \in 1..Len(drawing[1].strokes) : drawing[1].strokes[i].id = i

\* MAX_HISTORY_SIZE + 1 strokes were committed and everything undoable was
\* undone: the first stroke is still there
C10_Witness ==
    /\ Committed = MAX_HISTORY_SIZE + 1
    /\ history[1].past = <<>>
    /\ Len(history[1].future) = MAX_HISTORY_SIZE
    /\ history[1].future[MAX_HISTORY_SIZE].stroke.id = 2
    /\ Len(drawing[1].strokes) = 1
    /\ drawing[1].strokes[1].id = 1

\* the step is window w calling the drawing store's method op
Calls(w, op) == DrawingStep(w) /\ last'.op = op

\* the step changes nothing of window w's document and history and posts
\* nothing
NoOpStep(w) ==
    /\ drawing'[w] = drawing[w]
    /\ history'[w] = history[w]
    /\ posted' = posted
    /\ chan' = chan

\* C11 (empty-stack no-op): history.undo() returns null exactly when past is
\* empty and history.redo() returns null exactly when future is empty, that
\* is iff canUndo() / canRedo() is false; in that case drawing.undo() /
\* drawing.redo() leave the document, past and future unchanged and post no
\* message.
C11_EmptyStackNoOp ==
    /\ [][\A w \in Win : Calls(w, "undo") =>
             /\ (last'.ret = Null) <=> (history[w].past = <<>>)
             /\ (last'.ret = Null) <=> ~canUndo(history[w])
             /\ history[w].past = <<>> => NoOpStep(w)]_vars
    /\ [][\A w \in Win : Calls(w, "redo") =>
             /\ (last'.ret = Null) <=> (history[w].future = <<>>)
             /\ (last'.ret = Null) <=> ~canRedo(history[w])
             /\ history[w].future = <<>> => NoOpStep(w)]_vars

\* everything was undone and one more undo returned null: the strokes and
\* the redo stack are as they were
C11_Witness ==
    \E w \in Win :
        /\ last.op = "undo" /\ last.win = w /\ last.ret = Null
        /\ history[w].past = <<>>
        /\ history[w].future # <<>>
        /\ drawing[w].strokes # <<>>
        /\ pre.drawing = drawing[w]
        /\ pre.history = history[w]
        /\ posted["drawing"][w] = mutations["drawing"][w]

\* with no stroke in progress, the strokes of window 1 are the first m of
\* the strokes it committed, in commit order: the i-th has the i-th id
\* minted and is the stroke the i-th history entry recorded
CommittedPrefix ==
    drawing[1].currentStroke = Null =>
        LET log == history[1].past \o Reverse(history[1].future)
        IN  /\ Len(log) = Committed
            /\ Len(drawing[1].strokes) <= Committed
            /\ \A i \in 1..Len(drawing[1].strokes) :
                  /\ drawing[1].strokes[i].id = i
                  /\ drawing[1].strokes[i] = log[i].stroke

\* C12 (commit / undo / redo ordering): in a window that receives no remote
\* message, after committing S1..Sn (n <= MAX_HISTORY_SIZE) onto an empty
\* document, then k <= n undo() calls, then j <= k redo() calls, strokes is
\* [S1, ..., S(n-k+j)] in commit order: strokes is always a prefix of the
\* committed strokes, every commit makes it all n of them, every undo makes
\* it one shorter and every redo one longer.
C12_CommitOrder ==
    /\ [][CommittedPrefix']_vars
    /\ [][Calls(1, "finishStroke") =>
             Len(drawing'[1].strokes) = nextId' - 1]_vars
    /\ [][Calls(1, "undo") =>
             Len(drawing'[1].strokes) = Len(drawing[1].strokes) - 1]_vars
    /\ [][Calls(1, "redo") =>
             Len(drawing'[1].strokes) = Len(drawing[1].strokes) + 1]_vars

\* three one-point strokes committed, two undos, one redo (nine calls in
\* all): strokes is [S1, S2]
C12_Witness ==
    /\ last.op = "redo"
    /\ Committed = 3
    /\ left = 5 * MaxCommits - 9
    /\ drawing[1].strokes = <<Stroke(1, 1), Stroke(2, 1)>>
    /\ history[1].future = <<[type |-> "stroke_add", stroke |-> Stroke(3, 1)]>>

Without(seq, s) ==
    LET Other(x) == x.id # s.id
    IN  SelectSeq(seq, Other)

\* C14 (undo removes the recorded stroke): undo of a stroke_add entry for
\* stroke s removes exactly s from strokes, also when the document was
\* replaced between the commit and the undo (by load or setStrokes here);
\* it never removes a different stroke that happens to be last.
C14_UndoRemovesRecorded ==
    [][\A w \in Win :
          (/\ Calls(w, "undo")
           /\ last'.ret # Null
           /\ last'.ret.type = "stroke_add")
          => drawing'[w].strokes = Without(drawing[w].strokes,
                                           last'.ret.stroke)]_vars

\* C15 (history is local): handling an inbound drawing message leaves the
\* receiving window's past and future stacks unchanged, and no step other
\* than a call of a method of window w's own drawing store changes window
\* w's history, hence neither its canUndo() nor its canRedo().
C15_HistoryLocal ==
    /\ [][\A a \in Win, b \in Win :
             Handles("drawing", a, b)
             => /\ history'[b].past = history[b].past
                /\ history'[b].future = history[b].future]_vars
    /\ [][\A w \in Win :
             ~DrawingStep(w)
             => /\ history'[w] = history[w]
                /\ canUndo(history'[w]) = canUndo(history[w])
                /\ canRedo(history'[w]) = canRedo(history[w])]_vars

\* the control window, whose two stacks both hold an entry, has just handled
\* a message of another window that replaced its strokes
C15_Witness ==
    /\ last.op = "onmessage"
    /\ last.win = 1
    /\ last.store = "drawing"
    /\ drawing[1].strokes = <<Stroke(3, 1)>>
    /\ canUndo(history[1])
    /\ canRedo(history[1])
    /\ history[1].past[1].stroke = Stroke(1, 1)

\* the step is an undo or a redo of window w that returned an entry
Reverts(w) ==
    /\ Calls(w, "undo") \/ Calls(w, "redo")
    /\ last'.ret # Null

\* C16 as stated (undo and redo are replicated): once a message posted by an
\* undo() or redo() that returned an entry is delivered, the receiving
\* replica's strokes equal the undoing window's strokes.  Under SpecShared
\* every message of window 1 is posted by such an undo or redo.
C16_EqualsUndoer ==
    [][\A b \in Win \ {1} :
          Handles("drawing", 1, b)
          => drawing'[b].strokes = drawing'[1].strokes]_vars

\* C16, amended: every undo() / redo() that returns an entry posts one
\* message carrying the document it produced to each other live window; a
\* replica handling that message holds the strokes the undo or redo
\* produced, which are the undoing window's strokes of now if that window
\* has neither posted a later message nor handled one itself.
C16_UndoReplicated ==
    /\ [][\A w \in Win :
             Reverts(w)
             => /\ last'.msg = drawing'[w]
                /\ posted'["drawing"][w] = posted["drawing"][w] + 1
                /\ \A b \in Win \ {w} :
                       live[b] => chan'["drawing"][w][b]
                                  = Append(chan["drawing"][w][b], drawing'[w])]_vars
    /\ [][\A b \in Win \ {1} :
             Handles("drawing", 1, b)
             => /\ drawing'[b].strokes = Head(chan["drawing"][1][b]).strokes
                /\ (Len(chan["drawing"][1][b]) = 1 /\ applied["drawing"][1] = 0)
                   => drawing'[b].strokes = drawing'[1].strokes]_vars

\* another window has just handled the message of the control window's
\* redo: it holds the two strokes the redo produced
C16_Witness ==
    /\ last.op = "onmessage"
    /\ last.win = 2
    /\ last.store = "drawing"
    /\ history[1].future = <<>>
    /\ Len(history[1].past) = 2
    /\ history[2] = initialHistory
    /\ drawing[2].strokes = <<Stroke(1, 1), Stroke(2, 1)>>
    /\ drawing[2].strokes = drawing[1].strokes

\* C17 (bulk replace keeps history): setStrokes and load replace the strokes
\* without recording a history entry and without changing past or future,
\* so canUndo() and canRedo() are the same before and after the call.
C17_BulkReplaceKeepsHistory ==
    [][\A w \in Win :
          (Calls(w, "setStrokes") \/ Calls(w, "load"))
          => /\ history'[w].past = history[w].past
             /\ history'[w].future = history[w].future
             /\ canUndo(history'[w]) = canUndo(history[w])
             /\ canRedo(history'[w]) = canRedo(history[w])]_vars

\* a window with an entry on each stack has just replaced its strokes in
\* bulk: the strokes changed, the stacks did not
C17_Witness ==
    /\ last.op \in {"setStrokes", "load"}
    /\ drawing[last.win].strokes # pre.drawing.strokes
    /\ drawing[last.win].strokes # <<>>
    /\ canUndo(history[last.win])
    /\ canRedo(history[last.win])
    /\ history[last.win] = pre.history

\* the indices removeStroke rejects for a document of n strokes, two on each
\* side
OutOfRange(n) == {-2, -1, n, n + 1}

\* C18 (removeStroke out of range): removeStroke(index, recordHistory) with
\* index < 0 or index >= strokes.length leaves strokes, currentStroke and
\* both history stacks unchanged, also when recordHistory is true; a
\* removeStroke call that kept the strokes recorded nothing.
C18_OutOfRangeNoOp ==
    /\ [][\A w \in Win :
             \A index \in OutOfRange(Len(drawing'[w].strokes)),
               recordHistory \in BOOLEAN :
                 LET r == removeStrokeFn(drawing'[w], history'[w], index,
                                         recordHistory)
                 IN  /\ r.state.strokes = drawing'[w].strokes
                     /\ r.state.currentStroke = drawing'[w].currentStroke
                     /\ r.h.past = history'[w].past
                     /\ r.h.future = history'[w].future]_vars
    /\ [][\A w \in Win :
             (Calls(w, "removeStroke")
                /\ drawing'[w].strokes = drawing[w].strokes)
             => /\ drawing'[w] = drawing[w]
                /\ history'[w] = history[w]]_vars

\* a window holding strokes, a stroke in progress and an entry on each stack
\* has just called removeStroke with an index out of range: nothing changed
C18_Witness ==
    /\ last.op = "removeStroke"
    /\ drawing[last.win].strokes # <<>>
    /\ drawing[last.win].currentStroke # Null
    /\ drawing[last.win] = pre.drawing
    /\ history[last.win] = pre.history
    /\ canUndo(history[last.win])

\* C19 (malformed payload dropped): after a store handles an inbound payload
\* whose shape is not that of the store's value type, the store's value is
\* the value it held before.
C19_MalformedDropped ==
    [][\A s \in Store, a \in Win, b \in Win :
          (Handles(s, a, b) /\ ~WellShaped(s, Head(chan[s][a][b])))
          => ValueNext(s, b) = Value(s, b)]_vars

\* C20 (scale range): in every reachable state the scale of every replica
\* of the transform store lies between MIN_SCALE and MAX_SCALE, whatever
\* the interleaving of zoom, pan, reset and the handling of messages posted
\* by other replicas, also for zoom deltas of -1000 and less.
C20_ScaleRange ==
    \A w \in Win :
        /\ QLe(MIN_SCALE, transform[w].scale)
        /\ QLe(transform[w].scale, MAX_SCALE)

\* a replica has just handled the message of a zoom that hit a limit: one
\* replica holds MIN_SCALE, reached by a zoomFactor of 0 or less, and
\* another MAX_SCALE
C20_Witness ==
    /\ last.op = "onmessage"
    /\ last.store = "transform"
    /\ transform[last.win].scale \in {MIN_SCALE, MAX_SCALE}
    /\ \E v \in Win : transform[v].scale = MIN_SCALE
    /\ \E v \in Win : transform[v].scale = MAX_SCALE

\* the step is a call of transform.zoom in window w whose clamped new scale
\* is the scale the window held
ZoomAtLimit(w) ==
    /\ LocalCall("transform", w)
    /\ last'.op = "zoom"
    /\ transform'[w].scale = transform[w].scale

\* C21 (zoom at the clamp boundary): a transform.zoom whose clamped new
\* scale equals the current scale leaves x, y and scale unchanged and posts
\* nothing to the other windows.
C21_ZoomAtLimitSilent ==
    [][\A w \in Win :
          ZoomAtLimit(w)
          => /\ transform'[w] = transform[w]
             /\ posted' = posted
             /\ chan' = chan]_vars

\* the last step was a transform.zoom of window w, computed with rounding,
\* whose new scale was not clamped
ZoomedFreely(w) ==
    /\ last.op = "zoom"
    /\ last.win = w
    /\ last.ret # Null
    /\ LET s == unclamped(last.ret.before, last.ret.delta)
       IN  QLe(s, MAX_SCALE) /\ QLe(Round(MIN_SCALE), s)

\* the world point under the anchor of the last zoom, before and after it
AnchorBefore == screenToWorld(last.ret.mouseX, last.ret.mouseY, last.ret.before)
AnchorAfter == screenToWorld(last.ret.mouseX, last.ret.mouseY, transform[last.win])

\* |a - b| <= 5 * 2^(-Precision) * m: a and b differ by rounding only
Near(a, b, m) == QLe(QMul(QAbs(QSub(a, b)), QInt(Pow2(Precision))),
                     QMul(QInt(5), m))

\* C22 as stated (zoom-anchor invariance): for every transform, anchor and
\* delta for which the new scale is not clamped, the world point under the
\* anchor is the same before and after transform.zoom.
C22_AnchorFixed ==
    \A w \in Win : ZoomedFreely(w) => AnchorAfter = AnchorBefore

\* C22, amended: when the new scale is not clamped, each coordinate of the
\* world point under the anchor after the zoom differs from the one before
\* by rounding only, at most 5 * 2^(-Precision) * (|coordinate| + |anchor|
\* / newScale).
C22_AnchorNear ==
    \A w \in Win :
        ZoomedFreely(w)
        => LET s == transform[w].scale
           IN  /\ Near(AnchorAfter.x, AnchorBefore.x,
                       QAdd(QAbs(AnchorBefore.x),
                            QDiv(QAbs(last.ret.mouseX), s)))
               /\ Near(AnchorAfter.y, AnchorBefore.y,
                       QAdd(QAbs(AnchorBefore.y),
                            QDiv(QAbs(last.ret.mouseY), s)))

\* a zoom of 200 around (123, 457) that was not clamped has moved the
\* world point under the anchor by a rounding error
C22_Witness ==
    /\ ZoomedFreely(1)
    /\ last.ret.delta = 200
    /\ last.ret.mouseX = QInt(123)
    /\ transform[1].scale # last.ret.before.scale
    /\ AnchorAfter # AnchorBefore

\* the transform after zoom(+1000, 400, 300) from the initial transform
ZoomedIn == zoomFn(INITIAL_TRANSFORM, 1000, 400, 300)

\* C23 (zoom in/out scenario): starting from {x: 0, y: 0, scale: 1},
\* zoom(+1000, 400, 300) followed by zoom(-1000, 400, 300) returns scale to
\* 1 and {x, y} to {0, 0}.
C23_ZoomInOut ==
    [][\A w \in Win :
          (/\ transform[w] = ZoomedIn
           /\ LocalCall("transform", w)
           /\ last'.op = "zoom"
           /\ transform'[w] = zoomFn(ZoomedIn, -1000, 400, 300))
          => transform'[w] = INITIAL_TRANSFORM]_vars

\* the last step converted a screen point to world coordinates, or a world
\* point to screen coordinates; the point converted back with the same
\* transform
ToWorldDone == last.op = "screenToWorld"
ToScreenDone == last.op = "worldToScreen"
BackToScreen == worldToScreen(last.ret.to.x, last.ret.to.y, transform[last.win])
BackToWorld == screenToWorld(last.ret.to.x, last.ret.to.y, transform[last.win])

\* C24 as stated (coordinate round trip): for every transform with non-zero
\* scale and every point p, worldToScreen(screenToWorld(p, t), t) = p and
\* screenToWorld(worldToScreen(p, t), t) = p.
C24_RoundTrip ==
    /\ ToWorldDone => BackToScreen = last.ret.from
    /\ ToScreenDone => BackToWorld = last.ret.from

\* C24, amended: both round trips return p up to rounding only: a
\* coordinate of worldToScreen(screenToWorld(p, t), t) differs from p's by
\* at most 5 * 2^(-Precision) * (|p| + |offset|), a coordinate of
\* screenToWorld(worldToScreen(p, t), t) by at most 5 * 2^(-Precision) *
\* (|p| + |offset| / scale); with the initial transform both are p.
C24_RoundTripNear ==
    LET t == transform[last.win]
        p == last.ret.from
    IN  /\ ToWorldDone
           => /\ Near(BackToScreen.x, p.x, QAdd(QAbs(p.x), QAbs(t.x)))
              /\ Near(BackToScreen.y, p.y, QAdd(QAbs(p.y), QAbs(t.y)))
        /\ ToScreenDone
           => /\ Near(BackToWorld.x, p.x,
                      QAdd(QAbs(p.x), QDiv(QAbs(t.x), t.scale)))
              /\ Near(BackToWorld.y, p.y,
                      QAdd(QAbs(p.y), QDiv(QAbs(t.y), t.scale)))
        /\ (ToWorldDone /\ t = INITIAL_TRANSFORM) => BackToScreen = p
        /\ (ToScreenDone /\ t = INITIAL_TRANSFORM) => BackToWorld = p

\* a screen point was converted with a zoomed transform whose offset is
\* not zero, and converting it back misses it by a rounding error
C24_Witness ==
    /\ ToWorldDone
    /\ transform[last.win].scale # QInt(1)
    /\ transform[last.win].x # QInt(0)
    /\ BackToScreen # last.ret.from

\* C25 (finishStroke): when currentStroke is present it becomes the last
\* element of strokes, currentStroke becomes null and one stroke_add entry
\* holding that stroke is pushed on past; when currentStroke is null the
\* document, past and future are unchanged.
C25_FinishStroke ==
    [][\A w \in Win :
          Calls(w, "finishStroke")
          => LET stroke == drawing[w].currentStroke
                 entry == [type |-> "stroke_add", stroke |-> stroke]
             IN  IF stroke # Null
                 THEN /\ drawing'[w].strokes = Append(drawing[w].strokes, stroke)
                      /\ drawing'[w].currentStroke = Null
                      /\ history'[w].past[Len(history'[w].past)] = entry
                      /\ Len(history[w].past) < MAX_HISTORY_SIZE
                         => history'[w].past = Append(history[w].past, entry)
                 ELSE /\ drawing'[w] = drawing[w]
                      /\ history'[w] = history[w]]_vars

\* a window that held a stroke and a stroke in progress has committed the
\* second after the first
C25_Witness ==
    /\ last.op = "finishStroke"
    /\ pre.drawing.currentStroke # Null
    /\ pre.drawing.strokes # <<>>
    /\ Len(drawing[last.win].strokes) = Len(pre.drawing.strokes) + 1
    /\ Len(history[last.win].past) = Len(pre.history.past) + 1

\* C26 (stroke in progress): startStroke, updateCurrentStroke and
\* cancelStroke leave strokes and both history stacks unchanged; startStroke
\* only sets currentStroke, updateCurrentStroke only replaces the points of
\* an existing currentStroke and changes nothing when there is none,
\* cancelStroke only sets currentStroke to null.
C26_InProgressOnly ==
    [][\A w \in Win :
          LET cur == drawing[w].currentStroke
          IN  /\ Calls(w, "startStroke")
                 => /\ drawing'[w].currentStroke # Null
                    /\ drawing'[w] = [drawing[w] EXCEPT
                                        !.currentStroke = drawing'[w].currentStroke]
                    /\ history'[w] = history[w]
              /\ Calls(w, "updateCurrentStroke")
                 => /\ history'[w] = history[w]
                    /\ IF cur = Null
                       THEN drawing'[w] = drawing[w]
                       ELSE drawing'[w] =
                               [drawing[w] EXCEPT !.currentStroke.points =
                                   drawing'[w].currentStroke.points]
              /\ Calls(w, "cancelStroke")
                 => /\ drawing'[w] = [drawing[w] EXCEPT !.currentStroke = Null]
                    /\ history'[w] = history[w]]_vars

\* a window holding strokes and an entry on past has replaced the points of
\* its stroke in progress
C26_Witness ==
    /\ last.op = "updateCurrentStroke"
    /\ pre.drawing.currentStroke # Null
    /\ drawing[last.win].currentStroke.points # pre.drawing.currentStroke.points
    /\ drawing[last.win].strokes # <<>>
    /\ drawing[last.win].strokes = pre.drawing.strokes
    /\ canUndo(history[last.win])
    /\ history[last.win] = pre.history

\* C27 (clear): when strokes is non-empty one strokes_clear entry holding
\* the prior strokes is recorded and the document becomes the initial
\* state; when strokes is empty no entry is recorded and past and future
\* are unchanged.
C27_Clear ==
    [][\A w \in Win :
          Calls(w, "clear")
          => LET prior == drawing[w].strokes
                 entry == [type |-> "strokes_clear", strokes |-> prior]
             IN  IF prior # <<>>
                 THEN /\ drawing'[w] = initialState
                      /\ history'[w].past[Len(history'[w].past)] = entry
                      /\ Len(history[w].past) < MAX_HISTORY_SIZE
                         => history'[w].past = Append(history[w].past, entry)
                 ELSE /\ history'[w].past = history[w].past
                      /\ history'[w].future = history[w].future]_vars

\* a window holding two strokes, a stroke in progress and an entry on past
\* has cleared its document
C27_Witness ==
    /\ last.op = "clear"
    /\ Len(pre.drawing.strokes) = 2
    /\ pre.drawing.currentStroke # Null
    /\ pre.history.past # <<>>
    /\ drawing[last.win] = initialState
    /\ Len(history[last.win].past) = Len(pre.history.past) + 1

\* the last call of window w was a removeStroke that recorded an entry: its
\* index was valid and recordHistory true
RemovedRecorded(w) ==
    /\ last.op = "removeStroke"
    /\ last.win = w
    /\ history[w] # pre.history

\* the last call of window w was the undo that immediately followed a
\* removal that recorded an entry
RemovalUndone(w) ==
    /\ last.op = "undo"
    /\ last.win = w
    /\ last.ret # Null
    /\ last.ret.type = "stroke_remove"
    /\ undoTo[w].undone = 1
    /\ undoTo[w].run[Len(undoTo[w].run)].recorded

\* C28 (remove, undo, redo): removeStroke(i, true) with a valid index
\* records stroke_remove(stroke, i) for the stroke that was at index i; an
\* immediately following undo() re-inserts that stroke at index i,
\* restoring strokes exactly; an immediately following redo() removes it
\* again.
C28_RemoveUndoRedo ==
    /\ [][\A w \in Win :
             (Calls(w, "removeStroke") /\ history'[w] # history[w])
             => \E i \in 0..(Len(drawing[w].strokes) - 1) :
                   /\ history'[w].past[Len(history'[w].past)]
                      = [type |-> "stroke_remove",
                         stroke |-> drawing[w].strokes[i + 1], index |-> i]
                   /\ drawing'[w].strokes
                      = SubSeq(drawing[w].strokes, 1, i)
                        \o SubSeq(drawing[w].strokes, i + 2,
                                  Len(drawing[w].strokes))]_vars
    /\ [][\A w \in Win :
             (RemovedRecorded(w) /\ Calls(w, "undo"))
             => /\ last'.ret = history[w].past[Len(history[w].past)]
                /\ drawing'[w].strokes = pre.drawing.strokes
                /\ drawing'[w].strokes[last'.ret.index + 1] = last'.ret.stroke]_vars
    /\ [][\A w \in Win :
             (RemovalUndone(w) /\ Calls(w, "redo"))
             => /\ last'.ret = last.ret
                /\ drawing'[w].strokes = pre.drawing.strokes
                /\ drawing'[w].strokes = Without(drawing[w].strokes,
                                                 last.ret.stroke)]_vars

\* the first of two strokes was removed with recordHistory and the undo
\* that followed has put it back in front of the other
C28_Witness ==
    \E w \in Win :
        /\ RemovalUndone(w)
        /\ last.ret.index = 0
        /\ Len(drawing[w].strokes) = 2
        /\ drawing[w].strokes[1] = last.ret.stroke
        /\ canRedo(history[w])

\* past and future of window w hold n entries together
StackSize(h) == Len(h.past) + Len(h.future)

\* C29 (stack conservation): every history.undo() that returns an entry
\* moves the last element of past to the end of future, every
\* history.redo() that returns an entry moves the last element of future to
\* the end of past, so |past| + |future| is unchanged by undo and redo, and
\* it never exceeds MAX_HISTORY_SIZE in any reachable state.
C29_StackConservation ==
    /\ \A w \in Win : StackSize(history[w]) <= MAX_HISTORY_SIZE
    /\ [][\A w \in Win : StackSize(history'[w]) <= MAX_HISTORY_SIZE]_vars
    /\ [][\A w \in Win :
             (Calls(w, "undo") /\ last'.ret # Null)
             => /\ last'.ret = history[w].past[Len(history[w].past)]
                /\ history'[w].past = DropLast(history[w].past)
                /\ history'[w].future = Append(history[w].future, last'.ret)]_vars
    /\ [][\A w \in Win :
             (Calls(w, "redo") /\ last'.ret # Null)
             => /\ last'.ret = history[w].future[Len(history[w].future)]
                /\ history'[w].future = DropLast(history[w].future)
                /\ history'[w].past = Append(history[w].past, last'.ret)]_vars
    /\ [][\A w \in Win :
             (Calls(w, "undo") \/ Calls(w, "redo"))
             => StackSize(history'[w]) = StackSize(history[w])]_vars

\* a window whose stacks hold MAX_HISTORY_SIZE entries together, some of
\* them undone, has just redone one
C29_Witness ==
    /\ last.op = "redo"
    /\ last.ret # Null
    /\ history[last.win].future # <<>>
    /\ StackSize(history[last.win]) = MAX_HISTORY_SIZE

\* C30 (committed strokes are non-empty): whatever the pointer and touch
\* events of the Canvas and the loads of validated files, every stroke in
\* strokes has at least one point, in every window and every reachable
\* state.
C30_CommittedNonEmpty ==
    \A w \in Win : \A i \in 1..Len(drawing[w].strokes) :
        drawing[w].strokes[i].points >= 1

\* a window shows the strokes of a file it loaded and, after them, a stroke
\* drawn with pointer down, move and up
C30_Witness ==
    /\ last.op = "finishStroke"
    /\ \E i, j \in 1..Len(drawing[last.win].strokes) :
          /\ i < j
          /\ drawing[last.win].strokes[i] = FileStrokeA
          /\ drawing[last.win].strokes[j].id > 0
          /\ drawing[last.win].strokes[j].points >= 2

\* C31 (multi-touch cancellation): when a second touch starts while a stroke
\* is being drawn, the stroke in progress is discarded (currentStroke null,
\* strokes and history unchanged) and the window stops drawing; a pointer up
\* commits a stroke or records an entry only in a window that is drawing,
\* and a window starts drawing again only with a pointer down, so no later
\* pointer up of the cancelled gesture commits or records anything.
C31_MultiTouchCancels ==
    /\ [][\A w \in Win :
             (Calls(w, "cancelStroke") /\ canvas[w].isDrawing)
             => /\ drawing'[w].currentStroke = Null
                /\ drawing'[w].strokes = drawing[w].strokes
                /\ history'[w] = history[w]
                /\ canvas'[w].isMultiTouch
                /\ ~canvas'[w].isDrawing]_vars
    /\ [][\A w \in Win :
             (Calls(w, "finishStroke")
                /\ (drawing'[w].strokes # drawing[w].strokes
                      \/ history'[w] # history[w]))
             => canvas[w].isDrawing]_vars
    /\ [][\A w \in Win :
             (~canvas[w].isDrawing /\ canvas'[w].isDrawing)
             => Calls(w, "startStroke")]_vars

\* a second touch has just discarded the stroke a window was drawing
C31_Witness ==
    /\ last.op = "cancelStroke"
    /\ pre.drawing.currentStroke # Null
    /\ drawing[last.win].currentStroke = Null
    /\ canvas[last.win].isMultiTouch
    /\ ~canvas[last.win].isDrawing

\* the step is a call of transform.pan(dx, dy) in window w
Pans(w, dx, dy) ==
    /\ LocalCall("transform", w)
    /\ last'.op = "pan"
    /\ <<dx, dy>> \in PanDeltas

\* C32 (pan): transform.pan(dx, dy) adds dx to x and dy to y, with no
\* clamping, and leaves scale unchanged, whatever the transform.
C32_Pan ==
    [][\A w \in Win : \A d \in PanDeltas :
          Pans(w, d[1], d[2])
          => /\ transform'[w].x = QAdd(transform[w].x, QInt(d[1]))
             /\ transform'[w].y = QAdd(transform[w].y, QInt(d[2]))
             /\ transform'[w].scale = transform[w].scale]_vars

\* a window zoomed in around (400, 300) has just panned: the offsets moved
\* by the deltas, the scale is still 2
C32_Witness ==
    /\ last.op = "pan"
    /\ \E d \in PanDeltas :
          transform[last.win] =
              [x |-> QAdd(ZoomedIn.x, QInt(d[1])),
               y |-> QAdd(ZoomedIn.y, QInt(d[2])),
               scale |-> QInt(2)]

\* the step is a call of reset() of store s in window w
Resets(s, w) == LocalCall(s, w) /\ last'.op = "reset"

\* the step posts v once on the channel of store s from window w: one copy
\* for every other window that listens, and nothing else on any channel
PostsOnce(s, w, v) ==
    /\ posted' = [posted EXCEPT ![s][w] = @ + 1]
    /\ \A b \in Win \ {w} :
          chan'[s][w][b] = IF live[b] THEN Append(chan[s][w][b], v)
                           ELSE chan[s][w][b]
    /\ \A r \in Store, a \in Win, b \in Win :
          (r # s \/ a # w) => chan'[r][a][b] = chan[r][a][b]

\* C33 (reset): reset() of the transform store sets the local value to
\* {x: 0, y: 0, scale: 1} from any state and posts that value exactly once,
\* like any other local mutation; reset() of the settings store does the
\* same with INITIAL_SETTINGS.
C33_Reset ==
    /\ [][\A w \in Win :
             Resets("transform", w)
             => /\ transform'[w] = [x |-> QInt(0), y |-> QInt(0),
                                    scale |-> QInt(1)]
                /\ PostsOnce("transform", w, transform'[w])]_vars
    /\ [][\A w \in Win :
             Resets("settings", w)
             => /\ settings'[w] = INITIAL_SETTINGS
                /\ PostsOnce("settings", w, INITIAL_SETTINGS)]_vars

\* a window that had zoomed in has just reset its transform: the zoomed
\* value and, after it, the initial one are on their way to another window
C33_Witness ==
    /\ last.op = "reset"
    /\ last.store = "transform"
    /\ transform[last.win] = INITIAL_TRANSFORM
    /\ \E b \in Win \ {last.win} :
          chan["transform"][last.win][b] = <<ZoomedIn, INITIAL_TRANSFORM>>

\* the setters of the settings store, the field each one is named after and
\* the values it is called with
Setters ==
    {<<"setColor", "color", Colors>>,
     <<"setWidth", "width", Widths>>,
     <<"setViewportCulling", "viewportCulling", {FALSE}>>,
     <<"setPressureCurve", "pressureCurve", {7}>>,
     <<"setTiltEnabled", "tiltEnabled", {FALSE}>>,
     <<"setPressureMultiplier", "pressureMultiplier", {20}>>}

\* C34 (settings setters): each settings setter (setColor, setWidth,
\* setViewportCulling, setPressureCurve, setTiltEnabled,
\* setPressureMultiplier) changes only its own field, leaves every other
\* settings field unchanged, and posts the whole resulting settings value.
C34_Setters ==
    [][\A w \in Win : \A setter \in Setters :
          (LocalCall("settings", w) /\ last'.op = setter[1])
          => /\ DOMAIN settings'[w] = DOMAIN settings[w]
             /\ settings'[w][setter[2]] \in setter[3]
             /\ \A f \in DOMAIN settings[w] \ {setter[2]} :
                   settings'[w][f] = settings[w][f]
             /\ PostsOnce("settings", w, settings'[w])]_vars

\* a window that had set the colour has just set the width: the colour is
\* still the one it set, and the value with both is on its way to another
\* window
C34_Witness ==
    /\ last.op = "setWidth"
    /\ settings[last.win].color \in Colors
    /\ settings[last.win].width \in Widths
    /\ \E b \in Win \ {last.win} :
          /\ Len(chan["settings"][last.win][b]) = 2
          /\ chan["settings"][last.win][b][2] = settings[last.win]

\* C35 (channel release): every store's BroadcastChannel handle opened at
\* construction is closed when the owning window unloads, so no store still
\* holds an open channel after its window is gone.
C35_ChannelReleased ==
    \A s \in Store, w \in Win : ~live[w] => channel[s][w] # "open"

\* the drawing values of the writer still queued for reader b, oldest first
Queued(b) == chan["drawing"][1][b]

\* the newest drawing value reader b was sent: the last one queued for it,
\* or the one it holds when it has handled them all
Newest(b) == IF Queued(b) = <<>> THEN drawing[b] ELSE Queued(b)[Len(Queued(b))]

\* C36 (no phantom states): with one writing window and FIFO delivery, the
\* drawing values a reading replica holds over time are a contiguous run of
\* the values the writer posted, in the order posted.  The reader's value
\* changes only when it handles the oldest value queued for it, which it
\* then holds; its queue changes only by losing that value or by gaining, at
\* the end, the value the writer has just posted and holds; and the newest
\* value it was sent is the writer's document.  So the reader never holds a
\* document the writer never held and never goes back to an older one.
C36_NoPhantom ==
    /\ [][\A b \in Win \ {1} :
             drawing'[b] # drawing[b]
             => /\ Handles("drawing", 1, b)
                /\ drawing'[b] = Head(Queued(b))]_vars
    /\ [][\A b \in Win \ {1} :
             (live[b] /\ Queued(b)' # Queued(b))
             => \/ /\ Handles("drawing", 1, b)
                   /\ Queued(b)' = Tail(Queued(b))
                \/ /\ LocalCall("drawing", 1)
                   /\ Queued(b)' = Append(Queued(b), last'.msg)
                   /\ last'.msg = drawing'[1]]_vars
    /\ [][\A b \in Win \ {1} :
             (live'[b] /\ heard'["drawing"][b] > 0)
             => Document(Newest(b)') = Document(drawing'[1])]_vars

\* a reader has handled the two values the writer posted while it listened,
\* one after the other, and holds the writer's document
C36_Witness ==
    \E b \in Win \ {1} :
        /\ last.op = "onmessage" /\ last.win = b /\ last.store = "drawing"
        /\ applied["drawing"][b] = 2
        /\ posted["drawing"][1] = 3
        /\ drawing[b] # initialState
        /\ Document(drawing[b]) = Document(drawing[1])

\* C37 (undo and redo touch strokes only): drawing.undo() and drawing.redo()
\* modify only the strokes field of the drawing state: currentStroke and
\* currentFile are the same before and after, for every entry type.
C37_StrokesOnly ==
    [][\A w \in Win :
          (Calls(w, "undo") \/ Calls(w, "redo"))
          => /\ DOMAIN drawing'[w] = DOMAIN drawing[w]
             /\ drawing'[w].currentStroke = drawing[w].currentStroke
             /\ drawing'[w].currentFile = drawing[w].currentFile]_vars

\* a window that loaded a file, cleared it and started a stroke has just
\* undone the clear: the strokes are back, the stroke in progress and the
\* file are the ones it had
C37_Witness ==
    /\ last.op = "undo"
    /\ last.ret # Null
    /\ last.ret.type = "strokes_clear"
    /\ drawing[last.win].strokes # pre.drawing.strokes
    /\ drawing[last.win].currentStroke # Null
    /\ drawing[last.win].currentFile # Null

\* the step is a checkForUpdates call of window w returning
Returns(w) == Len(checks'[w]) < Len(checks[w])

\* C38 (version check completes): outside dev mode, every call of
\* versionStore.checkForUpdates eventually leaves checking = false, whatever
\* the outcome of the fetch (ok response, non-ok response, thrown error):
\* every call in flight returns, and checking is false when it does.
C38_CheckCompletes ==
    /\ [][\A w \in Win : Returns(w) => ~version'[w].checking]_vars
    /\ \A w \in Win : (checks[w] # <<>>) ~> (checks[w] = <<>>)

====
